---- MODULE Spec2Model ----
(***************************************************************************)
(* Model of the claudeoo fetch interceptor (src/src/interceptor.ts): the   *)
(* SSE demuxer, the per-stream state machine, the finalizer, the exit      *)
(* flusher and the session ledger, with the cost calculator of pricing.ts  *)
(* and the record sink of run.ts.                                          *)
(*                                                                         *)
(* Text is a sequence of one-element strings.  Markers ("event: ",         *)
(* "data: ", "[DONE]", the line break) are spelled character by character; *)
(* an event-type name and the body of a JSON payload are single atoms of   *)
(* the alphabet; the two bytes of a two-byte UTF-8 character are the atoms *)
(* "xC3" and "xA9".  Time stamps, durations, the session id and the        *)
(* working directory are not modelled.  Costs are integers in units of     *)
(* 10^-8 USD (prices per million tokens times 100).                        *)
(***************************************************************************)
EXTENDS Integers, Sequences, FiniteSets, TLC

(* ------------------------------ bounds -------------------------------- *)
\* matched calls per process
MaxTurns == 2
\* calls per process that do not match the watched endpoint
MaxOther == 1
\* read()/next() calls the host makes after the transport reported done
MaxDoneReads == 2
\* times the environment makes a step of the finalizer raise
MaxFaults == 1

\* the longest command line handed to the launcher
MaxArgs == 3

\* the longest chain of redirects a server answers with
MaxRedirects == 7

(* ----------------------------- sequences ------------------------------ *)
Last(s) == s[Len(s)]

Front(s) == SubSeq(s, 1, Len(s) - 1)

Drop(s, n) == SubSeq(s, n + 1, Len(s))

Take(s, n) == SubSeq(s, 1, n)

StartsWith(s, p) == Len(s) >= Len(p) /\ SubSeq(s, 1, Len(p)) = p

\* String.prototype.includes on sequences of atoms
Includes(s, p) == \E i \in 0..(Len(s) - Len(p)) : SubSeq(s, i + 1, i + Len(p)) = p

\* F applied to the value of v, which is computed once
Let(v, F(_)) == CHOOSE y \in {F(x) : x \in {v}} : TRUE

RECURSIVE SumSeq(_)
SumSeq(s) == IF s = <<>> THEN 0 ELSE s[1] + SumSeq(Tail(s))

(* ------------------------------ alphabet ------------------------------ *)
NL == "\n"

Whitespace == {" ", "\r", "\t"}

EventMarker == <<"e", "v", "e", "n", "t", ":", " ">>

DataMarker == <<"d", "a", "t", "a", ":", " ">>

DoneSentinel == <<"[", "D", "O", "N", "E", "]">>

LeadByte == "xC3"

ContByte == "xA9"

\* the character the two bytes encode, and the replacement character
TwoByteChar == "U+E9"

Replacement == "U+FFFD"

\* String.prototype.trim
RECURSIVE TrimLeft(_)
TrimLeft(s) == IF s # <<>> /\ s[1] \in Whitespace THEN TrimLeft(Tail(s)) ELSE s

RECURSIVE TrimRight(_)
TrimRight(s) == IF s # <<>> /\ Last(s) \in Whitespace THEN TrimRight(Front(s)) ELSE s

Trim(s) == TrimRight(TrimLeft(s))

(* --------------------------- TextDecoder ------------------------------ *)
\* TextDecoder("utf-8").decode(bytes, {stream: true}): lead holds whether a
\* lead byte is waiting for its continuation byte.  Returns the decoder
\* state and the decoded text.
RECURSIVE Concat(_, _, _)
Concat(f, lo, hi) ==
  IF lo > hi THEN <<>>
  ELSE IF lo = hi THEN f[lo]
  ELSE LET mid == (lo + hi) \div 2 IN Concat(f, lo, mid) \o Concat(f, mid + 1, hi)

DecodeStream(lead, bytes) ==
  LET Waiting(i) == IF i = 1 THEN lead ELSE bytes[i - 1] = LeadByte
      Out(i) ==
        LET b == bytes[i] IN
        IF Waiting(i)
        THEN IF b = ContByte THEN <<TwoByteChar>>
             ELSE IF b = LeadByte THEN <<Replacement>>
             ELSE <<Replacement, b>>
        ELSE IF b = LeadByte THEN <<>>
             ELSE IF b = ContByte THEN <<Replacement>>
             ELSE <<b>>
  IN [lead |-> IF bytes = <<>> THEN lead ELSE Last(bytes) = LeadByte,
      text |-> Concat([i \in 1..Len(bytes) |-> Out(i)], 1, Len(bytes))]

\* decoder.decode() with no argument: end of input
DecodeFlush(lead) == IF lead THEN <<Replacement>> ELSE <<>>

(* ----------------------------- payloads ------------------------------- *)
NoStr == "null"

NoNum == -1

NoUsage ==
  [present |-> FALSE, input_tokens |-> NoNum, output_tokens |-> NoNum,
   cache_creation_input_tokens |-> NoNum, cache_read_input_tokens |-> NoNum]

NoMessage == [present |-> FALSE, id |-> NoStr, model |-> <<>>, usage |-> NoUsage]

NoBlock == [present |-> FALSE, type |-> NoStr]

NoDelta ==
  [present |-> FALSE, text |-> <<>>, thinking |-> <<>>, partial_json |-> <<>>,
   stop_reason |-> NoStr]

\* a parsed payload with every field absent
Empty(t) ==
  [type |-> t, message |-> NoMessage, index |-> NoNum, content_block |-> NoBlock,
   delta |-> NoDelta, usage |-> NoUsage]

Usage(i, o, cw, cr) ==
  [present |-> TRUE, input_tokens |-> i, output_tokens |-> o,
   cache_creation_input_tokens |-> cw, cache_read_input_tokens |-> cr]

Opus == <<"claude", "opus", "4", "6", "20250610">>

Haiku == <<"claude", "haiku", "4", "5">>

Unpriced == <<"gpt", "x">>

\* a model field that holds a JSON number instead of a string
NumericModel == <<"#5">>

\* typeof model === "string"
IsString(model) == model # NumericModel

\* the JSON bodies the modelled server sends, by atom
PayloadTable ==
  [MS |-> [Empty("message_start") EXCEPT
             !.message = [present |-> TRUE, id |-> "msg_1", model |-> Opus,
                          usage |-> Usage(100, 1, 7, 3)]],
   MS2 |-> [Empty("message_start") EXCEPT
             !.message = [present |-> TRUE, id |-> "msg_2", model |-> Unpriced,
                          usage |-> Usage(10, 2, NoNum, NoNum)]],
   MSN |-> [Empty("message_start") EXCEPT
             !.message = [present |-> TRUE, id |-> "msg_3", model |-> NumericModel,
                          usage |-> Usage(5, 1, NoNum, NoNum)]],
   CBS0 |-> [Empty("content_block_start") EXCEPT
             !.index = 0, !.content_block = [present |-> TRUE, type |-> "text"]],
   CBS1 |-> [Empty("content_block_start") EXCEPT
             !.index = 1, !.content_block = [present |-> TRUE, type |-> "thinking"]],
   CBD0 |-> [Empty("content_block_delta") EXCEPT
             !.index = 0, !.delta = [NoDelta EXCEPT !.present = TRUE]],
   CBD1 |-> [Empty("content_block_delta") EXCEPT
             !.index = 1, !.delta = [NoDelta EXCEPT !.present = TRUE]],
   CBS2 |-> [Empty("content_block_start") EXCEPT
             !.index = 2, !.content_block = [present |-> TRUE, type |-> "tool_result"]],
   CBS3 |-> [Empty("content_block_start") EXCEPT
             !.index = 3, !.content_block = [present |-> TRUE, type |-> NoStr]],
   CBD2 |-> [Empty("content_block_delta") EXCEPT
             !.index = 2, !.delta = [NoDelta EXCEPT !.present = TRUE]],
   CBD3 |-> [Empty("content_block_delta") EXCEPT
             !.index = 3, !.delta = [NoDelta EXCEPT !.present = TRUE]],
   CBDND |-> [Empty("content_block_delta") EXCEPT !.index = 0],
   CBDNI |-> [Empty("content_block_delta") EXCEPT
             !.delta = [NoDelta EXCEPT !.present = TRUE, !.partial_json = <<"a", "b">>]],
   MD50 |-> [Empty("message_delta") EXCEPT
             !.usage = Usage(NoNum, 50, NoNum, NoNum),
             !.delta = [NoDelta EXCEPT !.present = TRUE, !.stop_reason = "end_turn"]],
   MD20 |-> [Empty("message_delta") EXCEPT
             !.usage = Usage(NoNum, 20, NoNum, NoNum)],
   MDX |-> [Empty("message_delta") EXCEPT
             !.usage = Usage(9, NoNum, 4, 4),
             !.delta = [NoDelta EXCEPT !.present = TRUE, !.stop_reason = "max_tokens"]],
   CBS0T |-> [Empty("content_block_start") EXCEPT
             !.index = 0, !.content_block = [present |-> TRUE, type |-> "tool_use"]],
   PING |-> Empty("ping"),
   STOP |-> Empty("message_stop")]

PayloadAtoms == DOMAIN PayloadTable

\* the delta field a payload atom puts its text in
TextField == [CBD0 |-> "text", CBD1 |-> "thinking", CBD2 |-> "text", CBD3 |-> "text"]

TextChars == {"a", "b", TwoByteChar, Replacement}

\* the JSON text of the null value
NullText == <<"n", "u", "l", "l">>

\* JSON.parse(data): the null value, or "{", a body atom, for a delta the
\* characters of its text, "}"; white space around the value is allowed;
\* anything else throws.  null tells that the value is null and has no
\* properties to read.
JSONParse(data) ==
  Let(Trim(data), LAMBDA s :
    LET ok == /\ Len(s) >= 3
              /\ s[1] = "{"
              /\ Last(s) = "}"
              /\ s[2] \in PayloadAtoms
              /\ \A i \in 3..(Len(s) - 1) : s[i] \in TextChars
              /\ (Len(s) > 3 => s[2] \in DOMAIN TextField)
        txt == SubSeq(s, 3, Len(s) - 1)
        p == PayloadTable[s[2]]
    IN IF s = NullText THEN [ok |-> TRUE, null |-> TRUE, value |-> Empty(NoStr)]
       ELSE IF ~ok THEN [ok |-> FALSE, null |-> FALSE, value |-> Empty("")]
       ELSE [ok |-> TRUE, null |-> FALSE,
             value |-> IF s[2] \in DOMAIN TextField
                       THEN IF TextField[s[2]] = "text"
                            THEN [p EXCEPT !.delta.text = txt]
                            ELSE [p EXCEPT !.delta.thinking = txt]
                       ELSE p])

(* ------------------------------ pricing ------------------------------- *)
DateTokens == {"20250610", "20251001"}

\* the inline fallback table of loadPricing, in listing order; prices are
\* USD per million tokens times 100
PricingModels ==
  <<[key |-> <<"claude", "opus", "4", "6">>,
     pricing |-> [input |-> 500, output |-> 2500, cacheWrite |-> 625, cacheRead |-> 50]],
    [key |-> <<"claude", "sonnet", "4", "6">>,
     pricing |-> [input |-> 300, output |-> 1500, cacheWrite |-> 375, cacheRead |-> 30]],
    [key |-> <<"claude", "haiku", "4", "5">>,
     pricing |-> [input |-> 100, output |-> 500, cacheWrite |-> 125, cacheRead |-> 10]]>>

NoPricing == [input |-> 0, output |-> 0, cacheWrite |-> 0, cacheRead |-> 0]

Families == <<"opus", "sonnet", "haiku">>

\* modelId.replace(/-\d{8}$/, "")
normalizeModelId(modelId) ==
  IF Len(modelId) > 1 /\ Last(modelId) \in DateTokens THEN Front(modelId) ELSE modelId

\* index of the first entry of the table satisfying P, 0 if none
FirstIn(models, P(_)) ==
  IF \E i \in 1..Len(models) : P(models[i])
  THEN CHOOSE i \in 1..Len(models) :
         /\ P(models[i])
         /\ \A j \in 1..(i - 1) : ~P(models[j])
  ELSE 0

\* mutant: the raw id is looked up before the id without its date
resolveRawFirst(models, modelId) ==
  LET normalized == normalizeModelId(modelId)
      IsNorm(e) == e.key = normalized
      IsRaw(e) == e.key = modelId
  IN IF FirstIn(models, IsRaw) # 0
       THEN [found |-> TRUE, pricing |-> models[FirstIn(models, IsRaw)].pricing]
     ELSE IF FirstIn(models, IsNorm) # 0
       THEN [found |-> TRUE, pricing |-> models[FirstIn(models, IsNorm)].pricing]
     ELSE [found |-> FALSE, pricing |-> NoPricing]

\* resolvePricing on the models of the config loadPricing returns, in
\* listing order
resolveIn(models, modelId) ==
  LET normalized == normalizeModelId(modelId)
      IsNorm(e) == e.key = normalized
      IsRaw(e) == e.key = modelId
      fams == {f \in 1..Len(Families) : Includes(normalized, <<Families[f]>>)}
      Fam(f) == LET InFam(e) == Includes(e.key, <<Families[f]>>) IN FirstIn(models, InFam)
      hits == {f \in fams : Fam(f) # 0}
  IN IF FirstIn(models, IsNorm) # 0
       THEN [found |-> TRUE, pricing |-> models[FirstIn(models, IsNorm)].pricing]
     ELSE IF FirstIn(models, IsRaw) # 0
       THEN [found |-> TRUE, pricing |-> models[FirstIn(models, IsRaw)].pricing]
     ELSE IF hits # {}
       THEN LET f == CHOOSE g \in hits : \A h \in hits : g <= h
            IN [found |-> TRUE, pricing |-> models[Fam(f)].pricing]
     ELSE [found |-> FALSE, pricing |-> NoPricing]

\* resolvePricing in the interceptor, where loadPricing gives the inline
\* table
resolvePricing(modelId) == resolveIn(PricingModels, modelId)

\* an entry of a pricing.json
Entry(key, input) ==
  [key |-> key,
   pricing |-> [input |-> input, output |-> 5 * input, cacheWrite |-> input, cacheRead |-> 1]]

\* the models of the configs loadPricing may return: the inline table, a
\* pricing.json with two opus entries in either order, one without an opus
\* entry, one with a dated key next to the undated one, and an empty one
Tables ==
  {PricingModels,
   <<Entry(<<"claude", "opus", "4", "6">>, 500), Entry(<<"claude", "opus", "4", "1">>, 1500),
     Entry(<<"claude", "haiku", "4", "5">>, 100)>>,
   <<Entry(<<"claude", "opus", "4", "1">>, 1500), Entry(<<"claude", "opus", "4", "6">>, 500),
     Entry(<<"claude", "haiku", "4", "5">>, 100)>>,
   <<Entry(<<"claude", "haiku", "4", "5">>, 100), Entry(<<"claude", "sonnet", "4", "6">>, 300)>>,
   <<Entry(<<"claude", "sonnet", "4", "6">>, 300), Entry(<<"claude", "haiku", "4", "5">>, 100)>>,
   <<Entry(<<"claude", "opus", "4", "6", "20250610">>, 700),
     Entry(<<"claude", "opus", "4", "6">>, 500)>>,
   <<Entry(<<"claude", "haiku", "3", "20251001">>, 80),
     Entry(<<"claude", "haiku", "4", "5">>, 100)>>,
   <<>>}

\* model ids: dated and undated, with and without an entry, of a known
\* family or of none, of two families, and a date alone
ModelIds ==
  {Opus, Haiku, Unpriced, <<"unknown">>,
   <<"claude", "opus", "4", "6">>, <<"claude", "opus", "4", "1", "20251001">>,
   <<"claude", "opus", "5">>, <<"claude", "sonnet", "4", "6", "20250610">>,
   <<"claude", "sonnet", "3">>, <<"claude", "haiku", "3", "20251001">>,
   <<"claude", "haiku", "4", "5", "20251001">>, <<"haiku", "opus">>,
   <<"sonnet", "haiku", "20250610">>, <<"20250610">>}

NotResolved == [models |-> <<>>, modelId |-> <<>>, found |-> FALSE, pricing |-> NoPricing,
                called |-> FALSE]

\* mutant: a model without a pricing entry is charged as the first entry
calculateCostDefault(modelId, inputTokens, outputTokens, cacheWriteTokens, cacheReadTokens) ==
  LET r == resolvePricing(modelId)
      pricing == IF r.found THEN r.pricing ELSE PricingModels[1].pricing
  IN inputTokens * pricing.input + outputTokens * pricing.output
     + cacheWriteTokens * pricing.cacheWrite + cacheReadTokens * pricing.cacheRead

calculateCost(modelId, inputTokens, outputTokens, cacheWriteTokens, cacheReadTokens) ==
  LET r == resolvePricing(modelId)
  IN IF ~r.found THEN 0
     ELSE inputTokens * r.pricing.input + outputTokens * r.pricing.output
          + cacheWriteTokens * r.pricing.cacheWrite
          + cacheReadTokens * r.pricing.cacheRead

(* ------------------------ stream state machine ------------------------ *)
\* x || 0 on an optional number
OrZero(x) == IF x = NoNum THEN 0 ELSE x

\* the StreamState a PendingStream is created with
InitialState(requestModel) ==
  [messageId |-> NoStr, model |-> requestModel,
   usage |-> [input_tokens |-> 0, output_tokens |-> 0,
              cache_creation_input_tokens |-> NoNum,
              cache_read_input_tokens |-> NoNum],
   stopReason |-> NoStr, contentBlocks |-> <<>>]

\* mutant: a delta without its block goes to the first tracked block
FindBlockOrFirst(blocks, index) ==
  IF \E i \in 1..Len(blocks) : blocks[i].index = index
  THEN CHOOSE i \in 1..Len(blocks) :
         /\ blocks[i].index = index
         /\ \A j \in 1..(i - 1) : blocks[j].index # index
  ELSE IF blocks # <<>> THEN 1 ELSE 0

\* contentBlocks.find(b => b.index === index): position of the block, 0 if none
FindBlock(blocks, index) ==
  IF \E i \in 1..Len(blocks) : blocks[i].index = index
  THEN CHOOSE i \in 1..Len(blocks) :
         /\ blocks[i].index = index
         /\ \A j \in 1..(i - 1) : blocks[j].index # index
  ELSE 0

\* delta.text || delta.thinking || delta.partial_json || ""
DeltaText(delta) ==
  IF delta.text # <<>> THEN delta.text
  ELSE IF delta.thinking # <<>> THEN delta.thinking
  ELSE delta.partial_json

\* mutant: the ledger gets the model id without its date suffix
StartLastModelNormalized(lastModel, model) == normalizeModelId(model)

\* session.lastModel = state.model, on a message_start that has a message
StartLastModel(lastModel, model) == model

\* mutant: a usage without an output count resets the count
DeltaOutputOrZero(fromDelta, current) == IF fromDelta # NoNum THEN fromDelta ELSE 0

\* mutant: only a provisional count of zero is corrected
DeltaOutputFirst(fromDelta, current) ==
  IF current = 0 /\ fromDelta # NoNum THEN fromDelta ELSE current

\* state.usage.output_tokens = deltaUsage.output_tokens ?? state.usage.output_tokens
DeltaOutput(fromDelta, current) == IF fromDelta # NoNum THEN fromDelta ELSE current

\* mutant: the first stop reason is kept
DeltaStopFirst(fromDelta, current) ==
  IF fromDelta # NoStr /\ current = NoStr THEN fromDelta ELSE current

\* if (d.stop_reason) state.stopReason = d.stop_reason
DeltaStop(fromDelta, current) == IF fromDelta # NoStr THEN fromDelta ELSE current

\* mutant: a delta replaces the count of its block
AddCharsOverwrite(charCount, text) == Len(text)

\* block.charCount += text.length
AddChars(charCount, text) == charCount + Len(text)

\* mutant: a new block replaces the tracked blocks
PushBlockReset(blocks, block) == <<block>>

\* state.contentBlocks.push(block)
PushBlock(blocks, block) == Append(blocks, block)

\* the event types processSSEEvent has a case for
Handled == {"message_start", "content_block_start", "content_block_delta", "message_delta"}

\* mutant: an event without a case ends the message
NoCaseStops(state) == [state EXCEPT !.stopReason = "end_turn"]

\* the switch has no default case: the state is left as it is
NoCase(state) == state

\* updateLiveStatus raises when displayModel calls replace on a last model
\* that is not a string
updateLiveStatusRaises(sess) == ~IsString(sess.lastModel)

\* processSSEEvent raises after its assignments: the updateLiveStatus call
\* that ends the message_start case
RaisesLate(eventType, data, sess) ==
  eventType = "message_start" /\ data.message.present /\ updateLiveStatusRaises(sess)

\* the updateLiveStatus call of the message_start case reaches
\* setTerminalTitle
WritesTitle(eventType, data, sess) ==
  eventType = "message_start" /\ data.message.present /\ ~updateLiveStatusRaises(sess)

\* processSSEEvent; returns the new StreamState and the new session ledger
processSSEEvent(eventType, data, state, sess) ==
  CASE eventType = "message_start" ->
         IF ~data.message.present THEN [state |-> state, session |-> sess]
         ELSE LET msg == data.message
                  s1 == IF msg.id # NoStr THEN [state EXCEPT !.messageId = msg.id] ELSE state
                  s2 == IF msg.model # <<>> THEN [s1 EXCEPT !.model = msg.model] ELSE s1
                  s3 == IF msg.usage.present
                        THEN [s2 EXCEPT !.usage =
                               [input_tokens |-> OrZero(msg.usage.input_tokens),
                                output_tokens |-> OrZero(msg.usage.output_tokens),
                                cache_creation_input_tokens |->
                                  OrZero(msg.usage.cache_creation_input_tokens),
                                cache_read_input_tokens |->
                                  OrZero(msg.usage.cache_read_input_tokens)]]
                        ELSE s2
              IN [state |-> s3,
                  session |-> [sess EXCEPT !.lastModel = StartLastModel(@, s3.model)]]
    [] eventType = "content_block_start" ->
         LET index == IF data.index # NoNum THEN data.index ELSE Len(state.contentBlocks)
             type == IF data.content_block.type # NoStr
                     THEN data.content_block.type ELSE "text"
         IN IF data.content_block.present
            THEN [state |-> [state EXCEPT !.contentBlocks =
                              PushBlock(@, [index |-> index, type |-> type, charCount |-> 0])],
                  session |-> sess]
            ELSE [state |-> state, session |-> sess]
    [] eventType = "content_block_delta" ->
         LET i == FindBlock(state.contentBlocks, data.index)
         IN IF data.delta.present /\ data.index # NoNum /\ i # 0
            THEN [state |-> [state EXCEPT !.contentBlocks[i].charCount =
                              AddChars(@, DeltaText(data.delta))],
                  session |-> sess]
            ELSE [state |-> state, session |-> sess]
    [] eventType = "message_delta" ->
         LET s1 == IF data.usage.present
                   THEN [state EXCEPT !.usage.output_tokens =
                          DeltaOutput(data.usage.output_tokens, @)]
                   ELSE state
             s2 == IF data.delta.present
                   THEN [s1 EXCEPT !.stopReason = DeltaStop(data.delta.stop_reason, @)]
                   ELSE s1
         IN [state |-> s2, session |-> sess]
    [] OTHER -> [state |-> NoCase(state), session |-> sess]

(* ------------------------------ demuxer ------------------------------- *)
\* buffer.split("\n"): the lines, the last one being the unterminated rest
SplitLines(buf) ==
  Let({i \in 1..Len(buf) : buf[i] = NL}, LAMBDA breaks :
    \* position of the j-th line break; 0 and Len + 1 bracket the text
    LET Break(j) == IF j = 0 THEN 0
                    ELSE IF j > Cardinality(breaks) THEN Len(buf) + 1
                    ELSE CHOOSE i \in breaks : Cardinality({x \in breaks : x < i}) = j - 1
    IN [j \in 1..(Cardinality(breaks) + 1) |->
          SubSeq(buf, Break(j - 1) + 1, Break(j) - 1)])

\* the lines processPendingBuffer handles now: all but the last fragment
CompleteLines(lines) == Front(lines)

\* an event-type name as a string: one atom, or some other text
TypeName(chars) ==
  IF chars = <<>> THEN "" ELSE IF Len(chars) = 1 THEN chars[1] ELSE "other"

\* types whose sse_event entry is not written to the side log
Unlogged == {"ping", "content_block_delta"}

\* mutant: the type the payload declares comes first
EvtTypeOwnFirst(eventType, parsed) ==
  IF parsed.type \notin {"", NoStr} THEN parsed.type ELSE eventType

\* pending.eventType || parsed.type
EvtType(eventType, parsed) == IF eventType # "" THEN eventType ELSE parsed.type

\* one iteration of the loop of processPendingBuffer.  e is the engine
\* state the call works on: the PendingStream p, the ledger, the side log
\* and the events applied so far.
ProcessLine(line, e) ==
  IF StartsWith(line, EventMarker)
  THEN [e EXCEPT !.p.eventType = TypeName(Trim(Drop(line, 7)))]
  ELSE IF StartsWith(line, DataMarker)
  THEN IF Drop(line, 6) = DoneSentinel THEN e
       ELSE Let(JSONParse(Drop(line, 6)), LAMBDA parsed :
              IF ~parsed.ok THEN e
              \* reading parsed.type, or the first property a case reads,
              \* raises on null; the catch of the loop takes it
              ELSE IF parsed.null /\ (e.p.eventType = "" \/ e.p.eventType \in Handled)
              THEN e
              ELSE Let(EvtType(e.p.eventType, parsed.value), LAMBDA evtType :
                Let(processSSEEvent(evtType, parsed.value, e.p.state, e.session),
                    LAMBDA r :
                  [e EXCEPT
                    !.p.state = r.state,
                    !.session = r.session,
                    !.stderr = IF WritesTitle(evtType, parsed.value, r.session)
                               THEN Append(@, "title") ELSE @,
                    !.applied[e.p.turnNum] =
                      Append(@, [type |-> evtType, data |-> parsed.value]),
                    !.log[e.p.turnNum] =
                      IF evtType \in Unlogged \/ RaisesLate(evtType, parsed.value, r.session)
                      THEN @
                      ELSE Append(@, [type |-> "sse_event", event_type |-> evtType])])))
  ELSE IF Trim(line) = <<>>
  THEN [e EXCEPT !.p.eventType = ""]
  ELSE e

\* the loop of processPendingBuffer from line i on
RECURSIVE ProcessLines(_, _, _)
ProcessLines(lines, i, e) ==
  IF i > Len(lines) THEN e
  ELSE Let(ProcessLine(lines[i], e), LAMBDA x : ProcessLines(lines, i + 1, x))

\* mutant: the unterminated rest of the buffer is dropped
processPendingBufferDropRest(e) ==
  Let(SplitLines(e.p.buffer), LAMBDA lines :
    Let(CompleteLines(lines), LAMBDA complete :
      Let([e EXCEPT !.p.buffer = <<>>], LAMBDA kept :
        ProcessLines(complete, 1, kept))))

processPendingBuffer(e) ==
  Let(SplitLines(e.p.buffer), LAMBDA lines :
    Let(CompleteLines(lines), LAMBDA complete :
      Let([e EXCEPT !.p.buffer = Last(lines)], LAMBDA kept :
        ProcessLines(complete, 1, kept))))

(* ----------------------------- finalizer ------------------------------ *)
\* where finalizeStream can raise: process.cwd() while the record is built,
\* and the verbose line written to stderr after the ledger update
FailKinds(isVerbose) == IF isVerbose THEN {"none", "cwd", "stderr"} ELSE {"none", "cwd"}

\* mutant: a block of any other kind is counted as text
CharsOfKindDefault(blocks, kind) ==
  SumSeq([i \in 1..Len(blocks) |->
            IF \/ blocks[i].type = kind
               \/ kind = "text" /\ blocks[i].type \notin {"thinking", "text", "tool_use"}
            THEN blocks[i].charCount ELSE 0])

\* the loop of finalizeStream over the tracked blocks, for one kind
CharsOfKind(blocks, kind) ==
  SumSeq([i \in 1..Len(blocks) |->
            IF blocks[i].type = kind THEN blocks[i].charCount ELSE 0])

\* mutant: the cost is taken before the output count is known
RecordCostBeforeOutput(state, cw, cr) ==
  calculateCost(state.model, state.usage.input_tokens, 0, cw, cr)

\* the calculateCost call of finalizeStream
RecordCost(state, cw, cr) ==
  calculateCost(state.model, state.usage.input_tokens, state.usage.output_tokens, cw, cr)

BuildRecord(p) ==
  LET state == p.state
      cw == OrZero(state.usage.cache_creation_input_tokens)
      cr == OrZero(state.usage.cache_read_input_tokens)
  IN [message_id |-> state.messageId,
      model |-> state.model,
      input_tokens |-> state.usage.input_tokens,
      output_tokens |-> state.usage.output_tokens,
      cache_creation_input_tokens |-> cw,
      cache_read_input_tokens |-> cr,
      thinking_chars |-> CharsOfKind(state.contentBlocks, "thinking"),
      text_chars |-> CharsOfKind(state.contentBlocks, "text"),
      tool_use_chars |-> CharsOfKind(state.contentBlocks, "tool_use"),
      stop_reason |-> state.stopReason,
      cost_usd |-> RecordCost(state, cw, cr),
      turn_number |-> p.turnNum]

\* mutant: the two cache totals take each other's count
UpdateLedgerSwapped(sess, record) ==
  [totalCost |-> sess.totalCost + record.cost_usd,
   totalInput |-> sess.totalInput + record.input_tokens,
   totalOutput |-> sess.totalOutput + record.output_tokens,
   totalCacheRead |-> sess.totalCacheRead + record.cache_creation_input_tokens,
   totalCacheWrite |-> sess.totalCacheWrite + record.cache_read_input_tokens,
   turns |-> sess.turns + 1,
   lastModel |-> record.model,
   lastTurnCost |-> record.cost_usd]

\* the ledger update of finalizeStream
UpdateLedger(sess, record) ==
  [totalCost |-> sess.totalCost + record.cost_usd,
   totalInput |-> sess.totalInput + record.input_tokens,
   totalOutput |-> sess.totalOutput + record.output_tokens,
   totalCacheRead |-> sess.totalCacheRead + record.cache_read_input_tokens,
   totalCacheWrite |-> sess.totalCacheWrite + record.cache_creation_input_tokens,
   turns |-> sess.turns + 1,
   lastModel |-> record.model,
   lastTurnCost |-> record.cost_usd]

\* the usage database: the api_calls table and the row of this session in
\* the sessions table
EmptyDb == [api_calls |-> <<>>, sessions |-> <<>>]

insertApiCall(d, record) == [d EXCEPT !.api_calls = Append(@, record)]

upsertSession(d, record) ==
  [d EXCEPT !.sessions =
     IF @ = <<>> THEN <<[total_calls |-> 1, total_cost |-> record.cost_usd]>>
     ELSE <<[total_calls |-> @[1].total_calls + 1,
             total_cost |-> @[1].total_cost + record.cost_usd]>>]

\* the two SQLite writes inside the try of writeRecord; outcome tells which
\* of them raises
WriteDb(d, record, outcome) ==
  IF outcome = "insert" THEN d
  ELSE IF outcome = "upsert" THEN insertApiCall(d, record)
  ELSE upsertSession(insertApiCall(d, record), record)

\* mutant: the database is written before the JSONL file
writeRecordDbFirst(files, record, isNoDb, io) ==
  LET written == IF isNoDb THEN files
                 ELSE [files EXCEPT !.db = WriteDb(@, record, io.db)]
  IN  IF io.sinkOk THEN [written EXCEPT !.jsonl = Append(@, record)]
      ELSE [written EXCEPT !.raised = TRUE]

\* writeRecord: the JSONL append, which raises when the file system refuses
\* it, then the database unless it is disabled; raised tells whether
\* writeRecord raised
writeRecord(files, record, isNoDb, io) ==
  IF ~io.sinkOk THEN [files EXCEPT !.raised = TRUE]
  ELSE LET appended == [files EXCEPT !.jsonl = Append(@, record)]
       IN  IF isNoDb THEN appended
           ELSE [appended EXCEPT !.db = WriteDb(@, record, io.db)]

\* writeLog: the append to the side log, which raises when the file system
\* refuses it
writeLog(logFile, entry, logOk) ==
  IF logOk THEN Append(logFile, entry) ELSE logFile

\* what the file system and SQLite do to the writes of one finalization
IoOk == [sinkOk |-> TRUE, logOk |-> TRUE, db |-> "ok"]

IoKinds == {IoOk, [IoOk EXCEPT !.sinkOk = FALSE], [IoOk EXCEPT !.logOk = FALSE]}

\* the outcomes for the sink: the JSONL append or one of the SQLite writes
\* raises
SinkKinds ==
  {IoOk, [IoOk EXCEPT !.sinkOk = FALSE], [IoOk EXCEPT !.db = "insert"],
   [IoOk EXCEPT !.db = "upsert"]}

\* mutant: a failure of the sink leaves the finalizer
EscapesSink(io) == ~io.sinkOk

\* both appends are inside a try with an empty catch: nothing escapes
Escapes(io) == FALSE

\* what finalizeStream writes to process.stderr: the terminal title of
\* updateLiveStatus and, when verbose, the line of the record; a write that
\* raises writes nothing
StatusWrites(err, isVerbose, fail) ==
  IF fail = "stderr" THEN err
  ELSE IF isVerbose THEN err \o <<"title", "line">>
  ELSE Append(err, "title")

\* one step of the finalization of a turn: the ledger update, the call of
\* writeRecord, the call of writeLog, an exception that leaves
\* finalizeStream, or the return of the completing read()/next()
Step(turn, step) == [turn |-> turn, step |-> step]

\* mutant: the summary is logged before the record is handed to the sink
LogThenSink(turn) == <<Step(turn, "log"), Step(turn, "sink")>>

\* the two try blocks that end finalizeStream, in program order
SinkThenLog(turn) == <<Step(turn, "sink"), Step(turn, "log")>>

\* finalizeStream; threw tells whether it raised
finalizeStream(e, isVerbose, fail, io) ==
  Let(BuildRecord(e.p), LAMBDA record :
    Let([e EXCEPT !.records = Append(@, record), !.session = UpdateLedger(@, record),
                  !.stderr = StatusWrites(@, isVerbose, fail),
                  !.effects = Append(@, Step(e.p.turnNum, "ledger"))],
        LAMBDA pushed :
      \* normalizeModelId calls replace on the model: it raises when the
      \* model is not a string, as process.cwd() may, before the record exists
      IF fail = "cwd" \/ ~IsString(e.p.state.model)
      THEN [e EXCEPT !.threw = TRUE, !.effects = Append(@, Step(e.p.turnNum, "raise"))]
      ELSE IF isVerbose /\ fail = "stderr"
      THEN [pushed EXCEPT !.threw = TRUE, !.effects = Append(@, Step(e.p.turnNum, "raise"))]
      ELSE Let(writeRecord([jsonl |-> pushed.jsonl, db |-> pushed.db, raised |-> FALSE],
                           record, e.noDb, io), LAMBDA files :
             [pushed EXCEPT
               !.jsonl = files.jsonl,
               !.db = files.db,
               !.log[e.p.turnNum] =
                 writeLog(@, [type |-> "stream_end", event_type |-> ""], io.logOk),
               !.effects = @ \o SinkThenLog(e.p.turnNum),
               !.threw = Escapes(io)])))

\* the try block of the wrapped read() when the transport reports done;
\* deleted tells whether pendingStreams.delete was reached
OnDone(e, lead, isVerbose, fail, io) ==
  Let([e EXCEPT !.p.buffer = @ \o DecodeFlush(lead)], LAMBDA flushed :
    Let(processPendingBuffer(flushed), LAMBDA processed :
      Let(finalizeStream(processed, isVerbose, fail, io), LAMBDA f :
        [e |-> f, deleted |-> ~f.threw])))

\* mutant: a stop reason in the stream finalizes it
OnChunkStopFinalizes(e, lead, bytes) ==
  Let(DecodeStream(lead, bytes), LAMBDA d :
    Let([e EXCEPT !.p.buffer = @ \o d.text], LAMBDA fed :
      Let(processPendingBuffer(fed), LAMBDA processed :
        [e |-> IF processed.p.state.stopReason # NoStr
               THEN finalizeStream(processed, FALSE, "none", IoOk)
               ELSE processed,
         lead |-> d.lead])))

\* the try block of the wrapped read() on a chunk
OnChunk(e, lead, bytes) ==
  Let(DecodeStream(lead, bytes), LAMBDA d :
    Let([e EXCEPT !.p.buffer = @ \o d.text], LAMBDA fed :
      [e |-> processPendingBuffer(fed), lead |-> d.lead]))

\* the try block of the wrapped next() of the async iterator when the
\* transport reports done
IterDone(e, lead, isVerbose, fail, io) ==
  Let([e EXCEPT !.p.buffer = @ \o DecodeFlush(lead)], LAMBDA flushed :
    Let(processPendingBuffer(flushed), LAMBDA processed :
      Let(finalizeStream(processed, isVerbose, fail, io), LAMBDA f :
        [e |-> f, deleted |-> ~f.threw])))

\* mutant: the iterator decodes every chunk on its own
IterChunkNoStream(e, lead, bytes) ==
  Let(DecodeStream(FALSE, bytes), LAMBDA d :
    Let([e EXCEPT !.p.buffer = @ \o d.text \o DecodeFlush(d.lead)], LAMBDA fed :
      [e |-> processPendingBuffer(fed), lead |-> FALSE]))

\* the try block of the wrapped next() of the async iterator on a chunk
IterChunk(e, lead, bytes) ==
  Let(DecodeStream(lead, bytes), LAMBDA d :
    Let([e EXCEPT !.p.buffer = @ \o d.text], LAMBDA fed :
      [e |-> processPendingBuffer(fed), lead |-> d.lead]))

\* the two ways a host consumes a response body
Paths == {"reader", "iterator"}

ChunkVia(path, e, lead, bytes) ==
  IF path = "reader" THEN OnChunk(e, lead, bytes) ELSE IterChunk(e, lead, bytes)

DoneVia(path, e, lead, isVerbose, fail, io) ==
  IF path = "reader" THEN OnDone(e, lead, isVerbose, fail, io)
  ELSE IterDone(e, lead, isVerbose, fail, io)

\* mutant: a failure inside the engine reaches the host
HostResultRaising(transportResult, engineThrew) ==
  IF engineThrew THEN [kind |-> "error", done |-> FALSE] ELSE transportResult

\* what the wrapper hands to the host: the result object of the transport
HostResult(transportResult, engineThrew) == transportResult

(* ---------------------------- environment ---------------------------- *)
Messages == <<"/v1", "/messages">>

Batches == <<"/v1", "/messages", "/batches">>

Urls == {Messages, Batches, <<"/v1", "/models">>}

\* mutant: the batch sub-path is not excluded
isAnthropicMessagesCallAny(url) == Includes(url, Messages)

isAnthropicMessagesCall(url) == Includes(url, Messages) /\ ~Includes(url, Batches)

EventStreamType == <<"text/event-stream">>

\* mutant: every response with a body is taken for a stream
IsEventStreamAnyBody(response) == response.hasBody

\* response.body && contentType.includes("text/event-stream")
IsEventStream(response) ==
  response.hasBody /\ Includes(response.contentType, EventStreamType)

\* a streaming response with the given body
SSE(bytes) ==
  [hasBody |-> TRUE, contentType |-> EventStreamType \o <<"; charset=utf-8">>,
   bytes |-> bytes]

\* responses that are not streams: JSON with a body, and the event-stream
\* content type without a body
NotStreams ==
  {[hasBody |-> TRUE, contentType |-> <<"application/json">>, bytes |-> <<>>],
   [hasBody |-> FALSE, contentType |-> EventStreamType, bytes |-> <<>>]}

NoResponse == [hasBody |-> FALSE, contentType |-> <<>>]

\* the fields of a request body: two config fields, the conversation, the
\* system prompt, the tool definitions, and a field that is none of these
RequestKeys == {"model", "stream", "messages", "system", "tools", "tool_choice"}

User(content) == [role |-> "user", content |-> content]

Assistant(content) == [role |-> "assistant", content |-> content]

\* a null element of the messages array
NullMessage == [role |-> "null", content |-> "null"]

MessageLists ==
  {<<>>, <<User("q1")>>, <<User("q1"), Assistant("a1")>>,
   <<User("q2"), Assistant("a1")>>, <<User("q1"), Assistant("a2")>>,
   <<User("q1"), NullMessage>>}

SystemPrompts == {<<"s1">>, <<"s2">>, <<"s1", "s2">>}

ToolLists == {<<"t1">>, <<"t2">>}

\* the parsed request body that has the given fields
RequestBody(keys, messages, system, tools) ==
  [k \in keys |->
     CASE k = "model" -> Haiku
       [] k = "stream" -> <<TRUE>>
       [] k = "messages" -> messages
       [] k = "system" -> system
       [] k = "tools" -> tools
       [] OTHER -> <<"auto">>]

RequestBodies ==
  {RequestBody(keys, messages, system, tools) :
     keys \in SUBSET RequestKeys, messages \in MessageLists,
     system \in SystemPrompts, tools \in ToolLists}

\* init of a call whose body parses to the given object
Request(requestBody) == [hasBody |-> TRUE, body |-> requestBody]

\* init without a body, or with one that does not parse
NoInit == [hasBody |-> FALSE, body |-> RequestBody({}, <<>>, <<>>, <<>>)]

\* the request that only names its model
HaikuInit == Request(RequestBody({"model"}, <<>>, <<>>, <<>>))

Inits == {HaikuInit, NoInit}

AllInits == {Request(b) : b \in RequestBodies} \cup {NoInit}

\* requestBody.model || "unknown"
RequestModel(init) ==
  IF init.hasBody /\ "model" \in DOMAIN init.body
  THEN init.body["model"] ELSE <<"unknown">>

ConfigKeys ==
  {"model", "max_tokens", "temperature", "stream", "metadata", "thinking", "output_config"}

\* mutant: the whole request body is logged
trimRequestBodyNot(requestBody) == requestBody

\* trimRequestBody
trimRequestBody(requestBody) ==
  LET has(k) == k \in DOMAIN requestBody
      messages == requestBody["messages"]
      withLast == has("messages") /\ Len(messages) > 0
      keys == (DOMAIN requestBody \cap ConfigKeys)
              \cup (IF withLast THEN {"messages_count", "last_message"} ELSE {})
              \cup (IF has("system") THEN {"system_blocks"} ELSE {})
              \cup (IF has("tools") THEN {"tools_count"} ELSE {})
  IN [k \in keys |->
        CASE k = "messages_count" -> Len(messages)
          [] k = "last_message" ->
               [role |-> Last(messages).role, content |-> Last(messages).content]
          [] k = "system_blocks" -> Len(requestBody["system"])
          [] k = "tools_count" -> Len(requestBody["tools"])
          [] OTHER -> requestBody[k]]

\* last.role of a null last message raises
TrimRaises(init) ==
  /\ init.hasBody
  /\ "messages" \in DOMAIN init.body
  /\ Len(init.body["messages"]) > 0
  /\ Last(init.body["messages"]) = NullMessage

\* the request entry of the side log: nothing when trimming or the append
\* raises inside the try
RequestLog(init, logOk) ==
  IF TrimRaises(init)
  THEN <<>>
  ELSE writeLog(<<>>, [type |-> "request", event_type |-> "",
                       model |-> RequestModel(init),
                       body |-> IF init.hasBody
                                THEN [null |-> FALSE, value |-> trimRequestBody(init.body)]
                                ELSE [null |-> TRUE, value |-> NoInit.body]],
                logOk)

EventLine(name) == EventMarker \o <<name, NL>>

DataText(atom, text) == DataMarker \o <<"{", atom>> \o text \o <<"}">>

DataLine(atom) == DataText(atom, <<>>) \o <<NL>>

\* response bodies of the modelled server
Plain ==
  DataLine("MS") \o DataLine("CBS0") \o DataText("CBD0", <<"a", "b">>) \o <<NL>>
  \o DataLine("PING") \o DataLine("MD50")

Dangling == DataLine("MS2") \o DataText("MD20", <<>>)

Framed ==
  EventLine("message_start") \o DataLine("MS") \o <<NL>>
  \o EventLine("content_block_start") \o DataLine("CBS1") \o <<NL>>
  \o EventLine("content_block_delta")
  \o DataText("CBD1", <<"a", LeadByte, ContByte>>) \o <<"\r", NL, NL>>
  \o EventLine("message_delta") \o DataLine("MD20") \o <<NL>>
  \o DataLine("MD50") \o DataLine("STOP")
  \o DataMarker \o DoneSentinel \o <<NL>>

Broken ==
  DataLine("MS") \o DataMarker \o <<"{", "MD50", NL>>
  \o EventLine("message_delta") \o DataMarker \o NullText \o <<NL, NL>>
  \o DataLine("MD20")
  \o <<"x", NL>> \o DataText("MD50", <<>>)

\* two deltas of 5 and 7 characters on block 0 with a ping between them, a
\* delta for block 1 before block 1 starts, and no message_start
Blocks ==
  DataLine("CBS0") \o DataText("CBD0", <<"a", "b", "a", "b", "a">>) \o <<NL>>
  \o DataLine("PING")
  \o DataText("CBD0", <<"b", "a", "b", "a", "b", "a", "b">>) \o <<NL>>
  \o DataText("CBD1", <<"a">>) \o <<NL>>
  \o DataLine("CBS1") \o DataText("CBD1", <<"b">>) \o <<NL>>
  \o DataLine("STOP")

\* two payloads under the event type ping, a blank line, a message_start
\* with no event line, then a message_start payload under message_delta
Mixed ==
  EventLine("ping") \o DataLine("MS") \o DataLine("MD50") \o <<NL>>
  \o DataLine("MS2") \o EventLine("message_delta") \o DataLine("MS")

\* a second content_block_start for index 0, between two deltas for it
Repeated ==
  DataLine("CBS0") \o DataText("CBD0", <<"a", "b">>) \o <<NL>>
  \o DataLine("CBS0T") \o DataText("CBD0", <<"a">>) \o <<NL>>

\* after block 0 has started: a delta without a delta field, a delta
\* without an index, and a delta for index 1, which has no block
Strays ==
  DataLine("CBS0") \o DataText("CBD0", <<"a", "b">>) \o <<NL>>
  \o DataLine("CBDND") \o DataLine("CBDNI") \o DataText("CBD1", <<"a">>) \o <<NL>>

\* four blocks with characters: tool_use, thinking, tool_result, and one
\* started without a kind
Kinds ==
  DataLine("CBS0T") \o DataText("CBD0", <<"a", "b">>) \o <<NL>>
  \o DataLine("CBS1") \o DataText("CBD1", <<"a">>) \o <<NL>>
  \o DataLine("CBS2") \o DataText("CBD2", <<"a", "b", "a">>) \o <<NL>>
  \o DataLine("CBS3") \o DataText("CBD3", <<"b", "a", "b", "a">>) \o <<NL>>

\* three message_delta events: an output count with a stop reason, a usage
\* without an output count with another stop reason, an output count alone
Stops == DataLine("MS") \o DataLine("MD50") \o DataLine("MDX") \o DataLine("MD20")

\* a message_start whose model is a number, then a message_delta
Malformed == DataLine("MSN") \o DataLine("MD50")

Short == DataLine("MS") \o DataLine("MD50")

CoarseBodies == {Short, Dangling}

AllBodies ==
  {Plain, Dangling, Framed, Broken, Blocks, Malformed, Mixed, Repeated, Stops,
   Strays, Kinds}

\* chunk lengths the transport may deliver next
CoarseChunks(data) == {k \in {11, Len(data)} : k <= Len(data)}

AllChunks(data) == 1..Len(data)

(* ------------------------------ launcher ------------------------------ *)
\* Array.prototype.includes
Has(args, a) == \E i \in 1..Len(args) : args[i] = a

CooVerbose == "--coo-verbose"

CooNoDb == "--coo-no-db"

\* the words a command line is made of
Tokens ==
  {CooVerbose, CooNoDb, "-p", "hello", "-v", "--help", "stats", "--week",
   "sessions", "--limit", "5", "session", "export", "--format", "json",
   "--output", "pricing", "--show"}

ArgLists == UNION {[1..n -> Tokens] : n \in 0..MaxArgs}

\* process.argv: node, the script path, the arguments
Argv(args) == <<"node", "claudeoo">> \o args

NaN == -1

\* parseInt(s, 10)
ParseInt(s) == IF s = "5" THEN 5 ELSE NaN

DefaultOpts ==
  [command |-> "run", claudeArgs |-> <<>>, verbose |-> FALSE, noDb |-> FALSE,
   statsRange |-> "today", sessionsLimit |-> 10, sessionId |-> NoStr,
   exportFormat |-> "csv", exportOutput |-> NoStr, pricingShow |-> FALSE]

\* mutant: only the flags in front of the first other argument are consumed
ExtractFlagsLeading(args) ==
  LET others == {i \in 1..Len(args) : args[i] \notin {CooVerbose, CooNoDb}}
      first == IF others = {} THEN Len(args) + 1
               ELSE CHOOSE i \in others : \A j \in others : i <= j
      lead == Take(args, first - 1)
  IN  [verbose |-> Has(lead, CooVerbose), noDb |-> Has(lead, CooNoDb),
       remaining |-> Drop(args, first - 1)]

\* the first loop of parseArgs: the launcher's own flags are taken out
ExtractFlags(args) ==
  [verbose |-> Has(args, CooVerbose), noDb |-> Has(args, CooNoDb),
   remaining |-> SelectSeq(args, LAMBDA a : a \notin {CooVerbose, CooNoDb})]

\* the loop of the stats command: the last range option wins
RECURSIVE StatsLoop(_, _, _)
StatsLoop(remaining, i, opts) ==
  IF i > Len(remaining) THEN opts
  ELSE StatsLoop(remaining, i + 1,
         IF remaining[i] = "--today" THEN [opts EXCEPT !.statsRange = "today"]
         ELSE IF remaining[i] = "--week" THEN [opts EXCEPT !.statsRange = "week"]
         ELSE IF remaining[i] = "--all" THEN [opts EXCEPT !.statsRange = "all"]
         ELSE opts)

\* the loop of the sessions command: --limit takes the argument after it
RECURSIVE SessionsLoop(_, _, _)
SessionsLoop(remaining, i, opts) ==
  IF i > Len(remaining) THEN opts
  ELSE IF remaining[i] = "--limit" /\ i + 1 <= Len(remaining)
       THEN SessionsLoop(remaining, i + 2,
              [opts EXCEPT !.sessionsLimit =
                 IF ParseInt(remaining[i + 1]) \in {NaN, 0} THEN 10
                 ELSE ParseInt(remaining[i + 1])])
       ELSE SessionsLoop(remaining, i + 1, opts)

\* the loop of the export command
RECURSIVE ExportLoop(_, _, _)
ExportLoop(remaining, i, opts) ==
  IF i > Len(remaining) THEN opts
  ELSE IF remaining[i] = "--format" /\ i + 1 <= Len(remaining)
       THEN ExportLoop(remaining, i + 2,
              IF remaining[i + 1] \in {"csv", "json"}
              THEN [opts EXCEPT !.exportFormat = remaining[i + 1]]
              ELSE opts)
       ELSE IF remaining[i] = "--output" /\ i + 1 <= Len(remaining)
            THEN ExportLoop(remaining, i + 2,
                   [opts EXCEPT !.exportOutput = remaining[i + 1]])
            ELSE ExportLoop(remaining, i + 1, opts)

parseArgs(argv) ==
  LET args == Drop(argv, 2)
      flags == ExtractFlags(args)
      remaining == flags.remaining
      opts == [DefaultOpts EXCEPT !.verbose = flags.verbose, !.noDb = flags.noDb]
      first == remaining[1]
  IN  IF remaining = <<>> THEN opts
      ELSE IF first \in {"--version", "-v"} THEN [opts EXCEPT !.command = "version"]
      ELSE IF first \in {"--help", "-h"} THEN [opts EXCEPT !.command = "help"]
      ELSE IF first = "stats"
           THEN StatsLoop(remaining, 2, [opts EXCEPT !.command = "stats"])
      ELSE IF first = "sessions"
           THEN SessionsLoop(remaining, 2, [opts EXCEPT !.command = "sessions"])
      ELSE IF first = "session"
           THEN [opts EXCEPT !.command = "session",
                             !.sessionId = IF Len(remaining) >= 2
                                           THEN remaining[2] ELSE NoStr]
      ELSE IF first = "export"
           THEN ExportLoop(remaining, 2, [opts EXCEPT !.command = "export"])
      ELSE IF first = "pricing"
           THEN [opts EXCEPT !.command = "pricing",
                             !.pricingShow = Has(remaining, "--show")]
      ELSE [opts EXCEPT !.command = "run", !.claudeArgs = remaining]

\* what findClaude returns: an npm-installed cli.js, a binary, or nothing
ClaudeKinds == {"node-cli", "binary", "none"}

NoChild == [command |-> "none", args |-> <<>>, verbose |-> "0", noDb |-> "0"]

\* the process runClaude spawns, with the two environment variables it sets
runClaude(claudeArgs, isVerbose, isNoDb, claude) ==
  IF claude = "none" THEN NoChild
  ELSE [command |-> IF claude = "node-cli" THEN "node" ELSE "claude",
        args |-> IF claude = "node-cli"
                 THEN <<"--require", "interceptor-loader.js", "cli.js">> \o claudeArgs
                 ELSE claudeArgs,
        verbose |-> IF isVerbose THEN "1" ELSE "0",
        noDb |-> IF isNoDb THEN "1" ELSE "0"]

(* --------------------------- pricing update --------------------------- *)
\* toModelId returns null for this row
NoKey == <<>>

Row(key, input, output) == [key |-> key, input |-> input, output |-> output]

\* the pricing page: whether it has a table with MTok in it, and the rows
\* of the table after the header
Page(rows) == [table |-> TRUE, rows |-> rows]

NoTable == [table |-> FALSE, rows |-> <<>>]

Pages ==
  {Page(<<Row(<<"claude", "opus", "4", "6">>, 500, 2500),
          Row(<<"claude", "haiku", "4", "5">>, 100, 500)>>),
   Page(<<Row(NoKey, 300, 1500), Row(<<"claude", "sonnet", "4", "6">>, 0, 0),
          Row(<<"claude", "haiku", "4", "5">>, 0, 500)>>),
   Page(<<Row(NoKey, 300, 1500), Row(<<"claude", "sonnet", "4", "6">>, 0, 0)>>),
   Page(<<>>),
   NoTable}

\* parseModelPricingTable: the rows with a model id and a price
parseModelPricingTable(page) ==
  IF ~page.table THEN <<>>
  ELSE SelectSeq(page.rows, LAMBDA r : r.key # NoKey /\ (r.input > 0 \/ r.output > 0))

\* what the server answers once the redirects are over: a page, a status
\* that is not 200, or a connection error
Finals ==
  {[kind |-> "page", page |-> page] : page \in Pages}
  \cup {[kind |-> "status", page |-> NoTable], [kind |-> "error", page |-> NoTable]}

\* a server that answers the first requests with a redirect
Servers == [redirects : 0..MaxRedirects, final : Finals]

\* mutant: every redirect is followed
RECURSIVE doFetchAll(_, _)
doFetchAll(server, redirects) ==
  IF redirects < server.redirects
  THEN doFetchAll(server, redirects + 1)
  ELSE [settled |-> IF server.final.kind = "page" THEN "resolved" ELSE server.final.kind,
        page |-> server.final.page, requests |-> redirects + 1]

\* doFetch of fetchText; requests is the number of requests sent
RECURSIVE doFetch(_, _)
doFetch(server, redirects) ==
  IF redirects > 5
  THEN [settled |-> "Too many redirects", page |-> NoTable, requests |-> redirects]
  ELSE IF redirects < server.redirects
  THEN doFetch(server, redirects + 1)
  ELSE [settled |-> IF server.final.kind = "page" THEN "resolved" ELSE server.final.kind,
        page |-> server.final.page, requests |-> redirects + 1]

fetchText(server) == doFetch(server, 0)

NoConfig == [version |-> "none", models |-> <<>>]

\* mutant: a page without a model gives a config without models
fetchPricingAny(server) ==
  Let(fetchText(server), LAMBDA content :
    IF content.settled # "resolved"
    THEN [settled |-> content.settled, config |-> NoConfig, requests |-> content.requests]
    ELSE [settled |-> "resolved",
          config |-> [version |-> "today", models |-> parseModelPricingTable(content.page)],
          requests |-> content.requests])

\* fetchPricing: the config of today, or the error it rejects with
fetchPricing(server) ==
  Let(fetchText(server), LAMBDA content :
    IF content.settled # "resolved"
    THEN [settled |-> content.settled, config |-> NoConfig, requests |-> content.requests]
    ELSE IF parseModelPricingTable(content.page) = <<>>
    THEN [settled |-> "no models", config |-> NoConfig, requests |-> content.requests]
    ELSE [settled |-> "resolved",
          config |-> [version |-> "today", models |-> parseModelPricingTable(content.page)],
          requests |-> content.requests])

\* savePricing; the write raises when the file system refuses it
savePricing(store, config, saveOk) ==
  IF ~saveOk THEN [store EXCEPT !.raised = TRUE]
  ELSE [store EXCEPT !.file = config, !.cache = NoConfig, !.written = TRUE,
                     !.cleared = TRUE]

\* pricing.json and the pricingConfig cache before the update, with what
\* the update does to them
Store(file, cache) ==
  [file |-> file, cache |-> cache, written |-> FALSE, cleared |-> FALSE, raised |-> FALSE]

OldConfig ==
  [version |-> "old", models |-> <<Row(<<"claude", "opus", "4", "6">>, 400, 2000)>>]

Stores == {Store(file, cache) : file \in {NoConfig, OldConfig}, cache \in {NoConfig, OldConfig}}

\* updatePricingOnStartup: slow tells that the fetch takes more than the
\* five seconds of the race, stderrOk that process.stderr.write works
updatePricingOnStartup(store, server, slow, verboseLog, stderrOk, saveOk) ==
  Let(fetchPricing(server), LAMBDA fetched :
    Let(IF slow THEN "timeout" ELSE fetched.settled, LAMBDA raced :
      Let(IF raced = "resolved" THEN savePricing(store, fetched.config, saveOk) ELSE store,
          LAMBDA saved :
        LET try == IF raced # "resolved" THEN raced
                   ELSE IF saved.raised THEN "save"
                   ELSE IF verboseLog /\ ~stderrOk THEN "stderr"
                   ELSE "ok"
        IN [store |-> saved,
            server |-> server,
            slow |-> slow,
            requests |-> fetched.requests,
            message |-> IF ~verboseLog \/ ~stderrOk THEN "none"
                        ELSE IF try = "ok" THEN "pricing updated"
                        ELSE "pricing update failed",
            fetch |-> raced,
            settled |-> IF try # "ok" /\ verboseLog /\ ~stderrOk
                        THEN "rejected" ELSE "resolved"])))

NoServer == [redirects |-> 0, final |-> [kind |-> "error", page |-> NoTable]]

NotUpdated ==
  [store |-> Store(NoConfig, NoConfig), server |-> NoServer, slow |-> FALSE,
   requests |-> 0, message |-> "none",
   fetch |-> "none", settled |-> "pending"]

NoCode == -1

NoSignal == "none"

\* the signals runClaude installs a handler for
ForwardedSignals == {"SIGINT", "SIGTERM", "SIGHUP"}

\* the signals that may end the child
Signals == ForwardedSignals \cup {"SIGKILL"}

ExitCodes == {0, 1, 130}

NoExit == [code |-> NoCode, signal |-> NoSignal]

Running == [kind |-> "running", code |-> NoCode, signal |-> NoSignal]

\* process.exit(code)
ExitWith(code) == [kind |-> "code", code |-> code, signal |-> NoSignal]

\* the process ends by the default action of a signal
KilledBy(signal) == [kind |-> "signal", code |-> NoCode, signal |-> signal]

\* process.kill(process.pid, signal) in the launcher: a signal with a
\* listener is given to the listener, which calls kill on the child that
\* has exited, and the launcher ends with code 0 when its event loop is
\* empty; any other signal ends the launcher
KillSelf(signal) ==
  IF signal \in ForwardedSignals THEN ExitWith(0) ELSE KilledBy(signal)

\* the last statement of the exit listener of the child
OnChildExit(code, signal) ==
  IF signal # NoSignal THEN KillSelf(signal)
  ELSE ExitWith(IF code = NoCode THEN 0 ELSE code)

\* the argument list Claude finds on its own command line
ClaudeArgs(proc) ==
  IF proc.command = "node" THEN Drop(proc.args, 3) ELSE proc.args

(* ------------------------------- state -------------------------------- *)
VARIABLES
  argv,            \* process.argv of the launcher
  opts,            \* the options main has parsed, once it has
  child,           \* the process the launcher has spawned
  forwarded,       \* the signals the launcher has passed on to the child
  childExit,       \* the code and signal of the child's exit event
  launcherExit,    \* how the launcher has terminated
  pricing,         \* pricing.json, the pricing cache and the startup update
  resolved,        \* the last call of resolvePricing: table, model id and result
  verbose,         \* the verbose option of initInterceptor
  noDb,            \* the noDb option of initInterceptor
  db,              \* the usage database
  turnCounter,     \* turnCounter
  calls,           \* the matched invocations of interceptedFetch, in call order
  others,          \* the URLs of the invocations that did not match
  stream,          \* the PendingStream objects, by turn number
  pendingStreams,  \* the keys of the pendingStreams map, in insertion order
  body,            \* per streaming response: bytes to come, decoder, transport
  session,         \* the session ledger
  records,         \* the records list
  jsonl,           \* the session's JSONL file
  log,             \* the side log, per turn
  stderr,          \* what the interceptor has written to process.stderr
  effects,         \* the steps of the finalizations, in the order they ran
  applied,         \* the events handed to processSSEEvent, per turn
  lastRead,        \* the last read()/next(): what the transport and the host got
  exited,          \* the exit hook has run
  faults           \* times a step of the finalizer has raised

launcher ==
  <<argv, opts, child, forwarded, childExit, launcherExit, pricing, resolved>>

vars ==
  <<launcher, verbose, noDb, db, turnCounter, calls, others, stream, pendingStreams, body, session,
    records, jsonl, log, stderr, effects, applied, lastRead, exited, faults>>

\* the state of the interceptor in the child
Interceptor ==
  <<verbose, noDb, db, turnCounter, calls, others, stream, pendingStreams, body, session,
    records, jsonl, log, stderr, effects, applied, lastRead, exited, faults>>

ToSet(s) == {s[i] : i \in 1..Len(s)}

\* Map.prototype.delete on the insertion-ordered keys
Remove(s, x) == SelectSeq(s, LAMBDA y : y # x)

InitialSession ==
  [totalCost |-> 0, totalInput |-> 0, totalOutput |-> 0, totalCacheRead |-> 0,
   totalCacheWrite |-> 0, turns |-> 0, lastModel |-> <<"unknown">>, lastTurnCost |-> 0]

\* a result of read()/next(): a chunk, done, or a rejection
Result(kind) == [kind |-> kind, done |-> kind = "done"]

\* fail and io are what the environment did to the finalizer in that read
NoRead == [turn |-> 0, transport |-> Result("none"), host |-> Result("none"),
           threw |-> FALSE, fail |-> "none", io |-> IoOk]

\* main has not run
NotParsed == [DefaultOpts EXCEPT !.command = "none"]

\* no signal has come, and the child and the launcher are running
NotEnded ==
  /\ forwarded = {}
  /\ childExit = NoExit
  /\ launcherExit = Running
  /\ pricing = NotUpdated
  /\ resolved = NotResolved

\* the interceptor's own state as the module leaves it when it is loaded
Loaded ==
  /\ db = EmptyDb
  /\ turnCounter = 0
  /\ calls = <<>>
  /\ stream = <<>>
  /\ pendingStreams = <<>>
  /\ body = <<>>
  /\ session = InitialSession
  /\ records = <<>>
  /\ jsonl = <<>>
  /\ log = <<>>
  \* installFetchWrapper
  /\ stderr = IF verbose THEN <<"installed">> ELSE <<>>
  /\ effects = <<>>
  /\ applied = <<>>
  /\ lastRead = NoRead
  /\ exited = FALSE
  /\ faults = 0
  /\ others = <<>>

\* the interceptor as initInterceptor leaves it in the child the launcher
\* started for one of the command lines
Launched(commandLines) ==
  /\ argv \in commandLines
  /\ opts = parseArgs(argv)
  /\ child = runClaude(opts.claudeArgs, opts.verbose, opts.noDb, "node-cli")
  /\ NotEnded
  /\ verbose = (child.verbose = "1")
  /\ noDb = (child.noDb = "1")
  /\ Loaded

\* Claude started with or without --coo-verbose
Init == Launched({Argv(<<>>), Argv(<<CooVerbose>>)})

\* the engine state a callback for turn t works on
Eng(t) ==
  [p |-> stream[t], session |-> session, records |-> records, jsonl |-> jsonl,
   db |-> db, noDb |-> noDb, log |-> log, stderr |-> stderr, effects |-> effects,
   applied |-> applied, threw |-> FALSE]

\* mutant: the streams share one line buffer
CommitSharedBuffer(e) ==
  /\ stream' = [u \in DOMAIN stream |->
                  IF u = e.p.turnNum THEN e.p
                  ELSE [stream[u] EXCEPT !.buffer = e.p.buffer]]
  /\ session' = e.session
  /\ records' = e.records
  /\ jsonl' = e.jsonl
  /\ db' = e.db
  /\ log' = e.log
  /\ stderr' = e.stderr
  /\ applied' = e.applied

\* the callback's writes to the module state
Commit(e) ==
  /\ stream' = [stream EXCEPT ![e.p.turnNum] = e.p]
  /\ session' = e.session
  /\ records' = e.records
  /\ jsonl' = e.jsonl
  /\ db' = e.db
  /\ log' = e.log
  /\ stderr' = e.stderr
  /\ applied' = e.applied

(* ------------------------------ actions ------------------------------- *)
\* mutant: the counter is not advanced
NextTurnStuck(counter) == counter

\* turnCounter++
NextTurn(counter) == counter + 1

\* interceptedFetch up to the await of the original fetch
FetchCall(url, init, logOk, limit) ==
  /\ ~exited
  /\ IF ~isAnthropicMessagesCall(url)
     THEN /\ Len(others) < MaxOther
          /\ others' = Append(others, url)
          /\ UNCHANGED <<turnCounter, calls, log, applied>>
     ELSE /\ turnCounter < limit
          /\ turnCounter' = NextTurn(turnCounter)
          /\ calls' = Append(calls, [url |-> url, turnNum |-> turnCounter',
                                     requestModel |-> RequestModel(init),
                                     init |-> init,
                                     status |-> "awaiting", host |-> "awaiting",
                                     wrapped |-> FALSE, response |-> NoResponse])
          /\ log' = Append(log, RequestLog(init, logOk))
          /\ applied' = Append(applied, <<>>)
          /\ UNCHANGED others
  /\ UNCHANGED <<launcher, noDb, verbose, stream, pendingStreams, body, session,
                 records, jsonl, db, lastRead, exited, faults,
                 stderr, effects>>

\* the original fetch of a matched call resolves with a response; path is
\* the way the host will consume the body of a streaming response
FetchResolve(c, response, path) ==
  /\ ~exited
  /\ c \in 1..Len(calls)
  /\ calls[c].status = "awaiting"
  /\ LET t == calls[c].turnNum
         seen == [hasBody |-> response.hasBody, contentType |-> response.contentType]
         pending == [state |-> InitialState(calls[c].requestModel),
                     requestModel |-> calls[c].requestModel,
                     turnNum |-> t, buffer |-> <<>>, eventType |-> ""]
     IN IF IsEventStream(response)
        THEN /\ stream' = (t :> pending) @@ stream
             /\ pendingStreams' = Append(pendingStreams, t)
             /\ body' = (t :> [all |-> response.bytes, data |-> response.bytes,
                               lead |-> FALSE, errored |-> FALSE, doneReads |-> 0,
                               path |-> path]) @@ body
             /\ calls' = [calls EXCEPT ![c].status = "resolved", ![c].wrapped = TRUE,
                                       ![c].response = seen,
                                       ![c].host = HostResult("resolved", FALSE)]
        ELSE /\ calls' = [calls EXCEPT ![c].status = "resolved",
                                       ![c].response = seen,
                                       ![c].host = HostResult("resolved", FALSE)]
             /\ UNCHANGED <<stream, pendingStreams, body>>
  /\ UNCHANGED <<launcher, noDb, verbose, turnCounter, session, records, jsonl, db,
                 log, applied, lastRead, exited, faults, others,
                 stderr, effects>>

\* the original fetch of a matched call rejects
FetchReject(c) ==
  /\ ~exited
  /\ c \in 1..Len(calls)
  /\ calls[c].status = "awaiting"
  /\ calls' = [calls EXCEPT ![c].status = "rejected",
                            ![c].host = HostResult("rejected", FALSE)]
  /\ UNCHANGED <<launcher, noDb, verbose, turnCounter, stream, pendingStreams, body,
                 session, records, jsonl, db, log, applied, lastRead, exited, faults,
                 others,
                 stderr, effects>>

\* the faults one run of the finalizer takes from the environment
Faults(fail, io) ==
  (IF fail # "none" THEN 1 ELSE 0) + (IF io.sinkOk THEN 0 ELSE 1)
  + (IF io.logOk THEN 0 ELSE 1) + (IF io.db = "ok" THEN 0 ELSE 1)

\* read() on the wrapped reader, or next() on the wrapped iterator, when
\* the transport delivers the next k bytes
ReadChunk(t, k) ==
  /\ ~exited
  /\ t \in DOMAIN body
  /\ ~body[t].errored
  /\ k \in 1..Len(body[t].data)
  /\ \E r \in {ChunkVia(body[t].path, Eng(t), body[t].lead, Take(body[t].data, k))} :
       /\ Commit(r.e)
       /\ effects' = r.e.effects
       /\ body' = [body EXCEPT ![t].data = Drop(@, k), ![t].lead = r.lead]
       /\ lastRead' = [turn |-> t, transport |-> Result("chunk"),
                       host |-> HostResult(Result("chunk"), r.e.threw),
                       threw |-> r.e.threw, fail |-> "none", io |-> IoOk]
  /\ UNCHANGED <<launcher, noDb, verbose, turnCounter, calls, pendingStreams, exited,
                 faults, others>>

\* read()/next() when the transport reports done
ReadDone(t, fail, io) ==
  /\ ~exited
  /\ t \in DOMAIN body
  /\ ~body[t].errored
  /\ body[t].data = <<>>
  /\ body[t].doneReads < MaxDoneReads
  /\ fail \in FailKinds(verbose)
  /\ faults' = faults + Faults(fail, io)
  /\ faults' <= MaxFaults
  /\ \E r \in {DoneVia(body[t].path, Eng(t), body[t].lead, verbose, fail, io)} :
       /\ Commit(r.e)
       \* return result
       /\ effects' = Append(r.e.effects, Step(t, "return"))
       /\ pendingStreams' = IF r.deleted THEN Remove(pendingStreams, t) ELSE pendingStreams
       /\ body' = [body EXCEPT ![t].doneReads = @ + 1, ![t].lead = FALSE]
       /\ lastRead' = [turn |-> t, transport |-> Result("done"),
                       host |-> HostResult(Result("done"), r.e.threw),
                       threw |-> r.e.threw, fail |-> fail, io |-> io]
  /\ UNCHANGED <<launcher, noDb, verbose, turnCounter, calls, exited, others>>

\* mutant: a read that raises takes the stream out of the pending map
ReadErrorDrops(t) ==
  /\ ~exited
  /\ t \in DOMAIN body
  /\ ~body[t].errored
  /\ body[t].doneReads = 0
  /\ body' = [body EXCEPT ![t].errored = TRUE]
  /\ pendingStreams' = Remove(pendingStreams, t)
  /\ LET result == Result("error")
     IN lastRead' = [turn |-> t, transport |-> result,
                     host |-> HostResult(result, FALSE), threw |-> FALSE,
                     fail |-> "none", io |-> IoOk]
  /\ UNCHANGED <<launcher, noDb, verbose, turnCounter, calls, stream, session, records,
                 jsonl, db, log, applied, exited, faults, others,
                 stderr, effects>>

\* read()/next() when the transport raises: the await in the wrapper raises
\* and nothing of the engine runs
ReadError(t) ==
  /\ ~exited
  /\ t \in DOMAIN body
  /\ ~body[t].errored
  /\ body[t].doneReads = 0
  /\ body' = [body EXCEPT ![t].errored = TRUE]
  /\ LET result == Result("error")
     IN lastRead' = [turn |-> t, transport |-> result,
                     host |-> HostResult(result, FALSE), threw |-> FALSE,
                     fail |-> "none", io |-> IoOk]
  /\ UNCHANGED <<launcher, noDb, verbose, turnCounter, calls, stream, pendingStreams,
                 session, records, jsonl, db, log, applied, exited, faults, others,
                 stderr, effects>>

\* mutant: the exit hook clears the map without finalizing
FlushAllSkipped(order, e, heap, fails, ios) == [e |-> e, heap |-> heap]

\* mutant: the first finalization that raises ends the loop
RECURSIVE FlushAllAbort(_, _, _, _, _)
FlushAllAbort(order, e, heap, fails, ios) ==
  IF order = <<>> THEN [e |-> e, heap |-> heap]
  ELSE Let(order[1], LAMBDA t :
         Let(processPendingBuffer([e EXCEPT !.p = heap[t], !.threw = FALSE]),
             LAMBDA processed :
           Let(finalizeStream(processed, verbose, fails[t], ios[t]), LAMBDA f :
             Let([heap EXCEPT ![t] = f.p], LAMBDA h :
               IF f.threw THEN [e |-> f, heap |-> h]
               ELSE Let(Tail(order), LAMBDA rest :
                      FlushAllAbort(rest, f, h, fails, ios))))))

\* the loop of the exit hook over the pending streams, in map order
RECURSIVE FlushAll(_, _, _, _, _)
FlushAll(order, e, heap, fails, ios) ==
  IF order = <<>> THEN [e |-> e, heap |-> heap]
  ELSE Let(order[1], LAMBDA t :
         Let(processPendingBuffer([e EXCEPT !.p = heap[t], !.threw = FALSE]),
             LAMBDA processed :
           Let(finalizeStream(processed, verbose, fails[t], ios[t]), LAMBDA f :
             Let([heap EXCEPT ![t] = f.p], LAMBDA h :
               Let(Tail(order), LAMBDA rest : FlushAll(rest, f, h, fails, ios))))))

\* the process exit hook
Exit(failures, ioKinds) ==
  /\ ~exited
  /\ exited' = TRUE
  /\ \E fails \in [ToSet(pendingStreams) -> failures \cap FailKinds(verbose)],
        ios \in [ToSet(pendingStreams) -> ioKinds] :
       /\ faults' = faults + SumSeq([i \in 1..Len(pendingStreams) |->
                       Faults(fails[pendingStreams[i]], ios[pendingStreams[i]])])
       /\ faults' <= MaxFaults
       /\ \E r \in {FlushAll(pendingStreams,
                            [p |-> <<>>, session |-> session, records |-> records,
                             jsonl |-> jsonl, db |-> db, noDb |-> noDb, log |-> log,
                             stderr |-> stderr, effects |-> effects, applied |-> applied,
                             threw |-> FALSE],
                            stream, fails, ios)} :
            /\ stream' = r.heap
            /\ session' = r.e.session
            /\ records' = r.e.records
            /\ jsonl' = r.e.jsonl
            /\ db' = r.e.db
            /\ log' = r.e.log
            \* setTerminalTitle("")
            /\ stderr' = Append(r.e.stderr, "title")
            /\ effects' = r.e.effects
            /\ applied' = r.e.applied
  /\ pendingStreams' = <<>>
  /\ UNCHANGED <<launcher, noDb, verbose, turnCounter, calls, body, lastRead, others>>

Failures == {"none", "cwd", "stderr"}

\* every life cycle of up to MaxTurns calls, with failures; bodies are read
\* through the reader, in coarse chunks
Next ==
  \/ \E url \in Urls : FetchCall(url, HaikuInit, TRUE, MaxTurns)
  \/ \E c \in 1..MaxTurns, b \in CoarseBodies : FetchResolve(c, SSE(b), "reader")
  \/ \E c \in 1..MaxTurns, r \in NotStreams : FetchResolve(c, r, "reader")
  \/ \E c \in 1..MaxTurns : FetchReject(c)
  \/ \E t \in DOMAIN body : \E k \in CoarseChunks(body[t].data) : ReadChunk(t, k)
  \/ \E t \in DOMAIN body, fail \in Failures, io \in IoKinds : ReadDone(t, fail, io)
  \/ \E t \in DOMAIN body : ReadError(t)
  \/ Exit(Failures, IoKinds)

Spec == Init /\ [][Next]_vars

\* one stream, every response body, every chunking, no failure
InitDemux == Init /\ verbose = FALSE

NextDemux ==
  \/ \E init \in Inits : turnCounter = 0 /\ FetchCall(Messages, init, TRUE, MaxTurns)
  \/ \E b \in AllBodies, path \in Paths : FetchResolve(1, SSE(b), path)
  \/ \E t \in DOMAIN body : \E k \in AllChunks(body[t].data) : ReadChunk(t, k)
  \/ \E t \in DOMAIN body : ReadDone(t, "none", IoOk)
  \/ Exit({"none"}, {IoOk})

SpecDemux == InitDemux /\ [][NextDemux]_vars

\* Claude started with or without --coo-no-db; every turn streams the short
\* body, and the JSONL append or a SQLite write may fail
InitSink == Launched({Argv(<<>>), Argv(<<CooNoDb>>)})

NextSink ==
  \/ FetchCall(Messages, HaikuInit, TRUE, MaxTurns)
  \/ \E c \in 1..MaxTurns : FetchResolve(c, SSE(Short), "reader")
  \/ \E t \in DOMAIN body : \E k \in CoarseChunks(body[t].data) : ReadChunk(t, k)
  \/ \E t \in DOMAIN body, io \in SinkKinds : ReadDone(t, "none", io)
  \/ Exit({"none"}, SinkKinds)

SpecSink == InitSink /\ [][NextSink]_vars

\* main of the launcher: the command line is parsed and the command is run
Main(claude) ==
  /\ opts = NotParsed
  /\ opts' = parseArgs(argv)
  /\ child' = IF opts'.command = "run"
              THEN runClaude(opts'.claudeArgs, opts'.verbose, opts'.noDb, claude)
              ELSE NoChild
  \* runClaude ends the launcher when findClaude finds nothing
  /\ launcherExit' = IF opts'.command = "run" /\ claude = "none"
                     THEN ExitWith(1) ELSE launcherExit
  /\ UNCHANGED <<argv, forwarded, childExit, pricing, resolved, Interceptor>>

\* the update main starts for the commands that need fresh pricing settles
UpdatePricing(server, slow, stderrOk, saveOk) ==
  /\ opts # NotParsed
  /\ opts.command \in {"run", "pricing", "stats"}
  /\ launcherExit = Running
  /\ pricing.settled = "pending"
  /\ pricing' = updatePricingOnStartup(pricing.store, server, slow, opts.verbose,
                                        stderrOk, saveOk)
  /\ UNCHANGED <<argv, opts, child, forwarded, childExit, launcherExit, resolved,
                 Interceptor>>

\* a call of resolvePricing(modelId) when loadPricing returns the models
Resolve(models, modelId) ==
  /\ resolved' = [models |-> models, modelId |-> modelId,
                  found |-> resolveIn(models, modelId).found,
                  pricing |-> resolveIn(models, modelId).pricing,
                  called |-> TRUE]
  /\ UNCHANGED <<argv, opts, child, forwarded, childExit, launcherExit, pricing,
                 Interceptor>>

\* the child Main has spawned is running under the launcher
Supervising ==
  /\ opts # NotParsed
  /\ opts.command = "run"
  /\ launcherExit = Running
  /\ childExit = NoExit

\* the launcher receives a signal it listens to: child.kill(sig)
Signal(sig) ==
  /\ Supervising
  /\ sig \in ForwardedSignals \ forwarded
  /\ forwarded' = forwarded \cup {sig}
  /\ UNCHANGED <<argv, opts, child, childExit, launcherExit, pricing, resolved,
                 Interceptor>>

\* the exit listener of the child, up to process.kill or process.exit
ChildExit(code, signal) ==
  /\ Supervising
  /\ (code = NoCode) # (signal = NoSignal)
  /\ childExit' = [code |-> code, signal |-> signal]
  /\ launcherExit' = OnChildExit(code, signal)
  /\ UNCHANGED <<argv, opts, child, forwarded, pricing, resolved, Interceptor>>

\* the launcher alone, on every command line of up to MaxArgs words
InitArgs ==
  /\ argv \in {Argv(args) : args \in ArgLists}
  /\ opts = NotParsed
  /\ child = NoChild
  /\ NotEnded
  /\ verbose = FALSE
  /\ noDb = FALSE
  /\ Loaded

NextArgs == \E claude \in ClaudeKinds : Main(claude)

SpecArgs == InitArgs /\ [][NextArgs]_vars

\* one call of the interceptor on every request, matched or not; the append
\* to the side log may fail
NextRequest ==
  \/ \E init \in AllInits, logOk \in BOOLEAN : FetchCall(Messages, init, logOk, 1)
  \/ \E url \in Urls \ {Messages} : FetchCall(url, NoInit, TRUE, 1)

SpecRequest == Init /\ [][NextRequest]_vars

\* the launcher started on one of two command lines, the signals it
\* receives, and the exit of the child
InitExit ==
  /\ argv \in {Argv(<<>>), Argv(<<CooVerbose, "-p">>)}
  /\ opts = NotParsed
  /\ child = NoChild
  /\ NotEnded
  /\ verbose = FALSE
  /\ noDb = FALSE
  /\ Loaded

NextExit ==
  \/ \E claude \in ClaudeKinds : Main(claude)
  \/ \E sig \in ForwardedSignals : Signal(sig)
  \/ \E code \in ExitCodes \cup {NoCode}, signal \in Signals \cup {NoSignal} :
       ChildExit(code, signal)

SpecExit == InitExit /\ [][NextExit]_vars

\* the launcher on a few command lines, with a stored pricing.json or none,
\* and the update against every server
InitPricing ==
  /\ argv \in {Argv(<<>>), Argv(<<CooVerbose>>), Argv(<<"stats">>),
               Argv(<<CooVerbose, "pricing">>), Argv(<<"sessions">>)}
  /\ opts = NotParsed
  /\ child = NoChild
  /\ forwarded = {}
  /\ childExit = NoExit
  /\ launcherExit = Running
  /\ pricing \in {[NotUpdated EXCEPT !.store = st] : st \in Stores}
  /\ resolved = NotResolved
  /\ verbose = FALSE
  /\ noDb = FALSE
  /\ Loaded

NextPricing ==
  \/ \E claude \in ClaudeKinds : Main(claude)
  \/ \E server \in Servers, slow, stderrOk, saveOk \in BOOLEAN :
       UpdatePricing(server, slow, stderrOk, saveOk)

SpecPricing == InitPricing /\ [][NextPricing]_vars

\* resolvePricing on every model id against every table
NextResolve == \E models \in Tables, modelId \in ModelIds : Resolve(models, modelId)

SpecResolve == Init /\ [][NextResolve]_vars

(* ------------------------------- claims ------------------------------- *)
\* the records of a list that belong to turn t
Of(list, t) == SelectSeq(list, LAMBDA r : r.turn_number = t)

Created == DOMAIN stream

Pending == ToSet(pendingStreams)

\* the records a step appends to the records list
NewRecords == SubSeq(records', Len(records) + 1, Len(records'))

ExitStep == ~exited /\ exited'

\* the stream of turn t has seen its transport report done
Completed(t) == t \in DOMAIN body /\ body[t].doneReads > 0

\* C1: a stream is finalized once; later triggers for the same turn (another
\* read()/next() that returns done, the exit flusher) add no record, append
\* nothing to the sink and do not touch the ledger.
C1_FinalizeIdempotent ==
  /\ \A t \in Created : Len(Of(records, t)) <= 1 /\ Len(Of(jsonl, t)) <= 1
  /\ session.turns = Cardinality({t \in Created : Of(records, t) # <<>>})

\* C2: between two callbacks a turn is in the pending map exactly when its
\* PendingStream was created and no record has been emitted for it.
C2_PendingIffNoRecord ==
  ~exited => \A t \in Created : (t \in Pending) <=> (Of(records, t) = <<>>)

WholeRecord(t) ==
  LET fresh == [Eng(t) EXCEPT
                 !.p = [state |-> InitialState(stream[t].requestModel),
                        requestModel |-> stream[t].requestModel,
                        turnNum |-> t, buffer |-> <<>>, eventType |-> ""]]
      c == OnChunk(fresh, FALSE, body[t].all)
  IN BuildRecord(OnDone(c.e, c.lead, FALSE, "none", IoOk).e.p)

\* the PendingStream after the bytes delivered so far, had they come as
\* one chunk
WholePrefix(t) ==
  LET fresh == [Eng(t) EXCEPT
                 !.p = [state |-> InitialState(stream[t].requestModel),
                        requestModel |-> stream[t].requestModel,
                        turnNum |-> t, buffer |-> <<>>, eventType |-> ""]]
  IN OnChunk(fresh, FALSE, Take(body[t].all, Len(body[t].all) - Len(body[t].data))).e.p

\* C4: however the transport cuts a response body into chunks, the record at
\* completion is the record of the body delivered as one chunk.
C4_ChunkInvariance ==
  \A t \in Created :
    /\ Completed(t) =>
         \A i \in 1..Len(Of(records, t)) : Of(records, t)[i] = WholeRecord(t)
    /\ ~Completed(t) /\ ~exited => stream[t] = WholePrefix(t)

\* a body with event lines, a two-byte character, a carriage return and the
\* sentinel has completed
C4_Witness ==
  \E t \in Created :
    /\ Completed(t)
    /\ body[t].all = Framed
    /\ Of(records, t) # <<>>
    /\ Of(records, t)[1].thinking_chars = 2
    /\ Of(records, t)[1].output_tokens = 50

\* positions in the applied events of turn t
StartsWithUsage(t) ==
  {i \in 1..Len(applied[t]) :
     /\ applied[t][i].type = "message_start"
     /\ applied[t][i].data.message.present
     /\ applied[t][i].data.message.usage.present}

DeltasWithOutput(t) ==
  {i \in 1..Len(applied[t]) :
     /\ applied[t][i].type = "message_delta"
     /\ applied[t][i].data.usage.present
     /\ applied[t][i].data.usage.output_tokens # NoNum}

Max(S) == CHOOSE x \in S : \A y \in S : y <= x

\* C5: when a message_start with usage is followed by message_delta events
\* with an output token count, the record has the input tokens of the
\* message_start and the output tokens of the last message_delta.
C5_CorrectionSemantics ==
  \A t \in Created :
    (/\ StartsWithUsage(t) # {}
     /\ DeltasWithOutput(t) # {}
     /\ Max(StartsWithUsage(t)) < Max(DeltasWithOutput(t)))
    => \A i \in 1..Len(Of(records, t)) :
         /\ Of(records, t)[i].input_tokens =
              OrZero(applied[t][Max(StartsWithUsage(t))].data.message.usage.input_tokens)
         /\ Of(records, t)[i].output_tokens =
              applied[t][Max(DeltasWithOutput(t))].data.usage.output_tokens

\* a record after two corrections: 1 provisional, then 20, then 50
C5_Witness ==
  \E t \in Created :
    /\ Cardinality(DeltasWithOutput(t)) = 2
    /\ StartsWithUsage(t) # {}
    /\ Of(records, t) # <<>>
    /\ Of(records, t)[1].input_tokens = 100
    /\ Of(records, t)[1].output_tokens = 50

\* C6: the host gets from read()/next() the result the transport gave, and
\* from the wrapped fetch the outcome of the original fetch, whatever
\* happened inside the engine.
C6_Transparency ==
  /\ lastRead.host = lastRead.transport
  /\ \A c \in 1..Len(calls) : calls[c].host = calls[c].status

\* the finalizer raised inside a read that reported done to the host
C6_Witness == lastRead.threw /\ lastRead.host = Result("done") /\ faults = 1

\* the claim's own reading of a URL that does not match
NoMatch(url) == ~Includes(url, <<"/v1", "/messages">>)
                \/ Includes(url, <<"/v1", "/messages", "/batches">>)

\* a step that dispatches a call to url
Dispatches(url) ==
  \/ others' = Append(others, url)
  \/ Len(calls') = Len(calls) + 1 /\ Last(calls').url = url

\* C7: a call that does not match is passed through: no turn number, no
\* pending stream, no ledger, record or log change, no wrapped body.
C7_PassThrough ==
  [][\A url \in Urls :
       Dispatches(url) /\ NoMatch(url) =>
         UNCHANGED <<turnCounter, calls, stream, pendingStreams, body, session, records,
                     jsonl, log, applied>>]_vars

C7_Witness ==
  /\ Batches \in ToSet(others)
  /\ turnCounter = MaxTurns
  /\ Len(calls) = MaxTurns

\* the record a stream would get if the rest of its buffer were handled as
\* a complete line
FlushedRecord(t) ==
  BuildRecord(processPendingBuffer([Eng(t) EXCEPT !.p.buffer = @ \o <<NL>>]).p)

\* C8: at finalization a last line without a line break is parsed and its
\* event applied before the record is built.
C8_ForceFlush ==
  \A t \in Created :
    Completed(t) => \A i \in 1..Len(Of(records, t)) : Of(records, t)[i] = FlushedRecord(t)

LedgerTotals(sess) ==
  <<sess.totalCost, sess.totalInput, sess.totalOutput, sess.totalCacheRead,
    sess.totalCacheWrite, sess.turns, sess.lastTurnCost>>

AppliesStart(t) ==
  /\ t \in DOMAIN applied
  /\ \E i \in (Len(applied[t]) + 1)..Len(applied'[t]) :
       applied'[t][i].type = "message_start" /\ applied'[t][i].data.message.present

C10_SequentialTurns ==
  /\ turnCounter = Len(calls)
  /\ \A k \in 1..Len(calls) : calls[k].turnNum = k
  /\ \A t \in Created : stream[t].turnNum = t /\ calls[t].status = "resolved"
  /\ \A i, j \in 1..Len(pendingStreams) : pendingStreams[i] = pendingStreams[j] => i = j

\* the first call failed, the second is streaming: its turn number is 2
C10_Witness ==
  /\ Len(calls) = 2
  /\ calls[1].status = "rejected"
  /\ Pending = {2}
  /\ stream[2].turnNum = 2

\* C11: the cost of every record is the cost function applied to the
\* record's own model and token counts, and these are the values the
\* StreamState holds at finalization.
C11_CostFromFinalUsage ==
  \A i \in 1..Len(records) :
    LET r == records[i]
        final == stream[r.turn_number].state
    IN /\ r.cost_usd = calculateCost(r.model, r.input_tokens, r.output_tokens,
                                     r.cache_creation_input_tokens,
                                     r.cache_read_input_tokens)
       /\ r.model = final.model
       /\ r.input_tokens = final.usage.input_tokens
       /\ r.output_tokens = final.usage.output_tokens
       /\ r.cache_creation_input_tokens = OrZero(final.usage.cache_creation_input_tokens)
       /\ r.cache_read_input_tokens = OrZero(final.usage.cache_read_input_tokens)

\* a priced record whose output count went through 1, 20 and 50:
\* 100 * 500 + 50 * 2500 + 7 * 625 + 3 * 50
C11_Witness ==
  \E i \in 1..Len(records) :
    /\ records[i].model = Opus
    /\ Cardinality(DeltasWithOutput(records[i].turn_number)) = 2
    /\ records[i].output_tokens = 50
    /\ records[i].cost_usd = 179525

\* positions in the applied events of turn t that start a block
BlockStarts(t) ==
  {i \in 1..Len(applied[t]) :
     applied[t][i].type = "content_block_start" /\ applied[t][i].data.content_block.present}

\* position of the k-th block start
NthStart(t, k) ==
  CHOOSE i \in BlockStarts(t) : Cardinality({j \in BlockStarts(t) : j < i}) = k - 1

\* characters of the deltas for index n applied after position from
DeltaSum(t, n, from) ==
  SumSeq([j \in 1..Len(applied[t]) |->
            IF /\ j > from
               /\ applied[t][j].type = "content_block_delta"
               /\ applied[t][j].data.delta.present
               /\ applied[t][j].data.index = n
            THEN Len(DeltaText(applied[t][j].data.delta))
            ELSE 0])

\* C12: the character count of the block started at index n is the sum of the
\* lengths of the deltas for index n applied since that start.
C12_BlockAccumulation ==
  \A t \in Created :
    LET blocks == stream[t].state.contentBlocks
    IN /\ Len(blocks) = Cardinality(BlockStarts(t))
       /\ \A k \in 1..Len(blocks) :
            FindBlock(blocks, blocks[k].index) = k =>
              blocks[k].charCount = DeltaSum(t, blocks[k].index, NthStart(t, k))

\* deltas of 5 and 7 characters on block 0 give 12; of the two deltas for
\* index 1 only the one after the start of block 1 counts
C12_Witness ==
  \E t \in Created :
    /\ Len(stream[t].state.contentBlocks) = 2
    /\ stream[t].state.contentBlocks[1] = [index |-> 0, type |-> "text", charCount |-> 12]
    /\ stream[t].state.contentBlocks[2] = [index |-> 1, type |-> "thinking", charCount |-> 1]
    /\ DeltaSum(t, 1, 0) = 2

\* event types the state machine has no case for
NoCaseTypes == {"ping", "message_stop", "content_block_stop", "other", ""}

\* the StreamState after the events from position i on, those without a
\* case left out
RECURSIVE FoldHandled(_, _, _)
FoldHandled(events, i, state) ==
  IF i > Len(events) THEN state
  ELSE IF events[i].type \in {"message_start", "content_block_start",
                              "content_block_delta", "message_delta"}
  THEN Let(processSSEEvent(events[i].type, events[i].data, state, InitialSession).state,
           LAMBDA x : FoldHandled(events, i + 1, x))
  ELSE FoldHandled(events, i + 1, state)

\* C13: an event of a type other than the four handled ones leaves the
\* StreamState as it is, so the state and the record of a stream are those of
\* its events with the others left out.
C13_UnknownEventsNoOp ==
  \A t \in Created :
    LET folded == FoldHandled(applied[t], 1, InitialState(stream[t].requestModel))
    IN /\ stream[t].state = folded
       /\ \A i \in 1..Len(Of(records, t)) :
            Of(records, t)[i] = BuildRecord([stream[t] EXCEPT !.state = folded])
       /\ \A ty \in NoCaseTypes, a \in PayloadAtoms :
            processSSEEvent(ty, PayloadTable[a], stream[t].state, session).state
              = stream[t].state

\* a ping was applied between two deltas of a stream that has its record
C13_Witness ==
  \E t \in Created :
    /\ \E i, j, k \in 1..Len(applied[t]) :
         /\ i < j /\ j < k
         /\ applied[t][i].type = "content_block_delta"
         /\ applied[t][j].type = "ping"
         /\ applied[t][k].type = "content_block_delta"
    /\ Of(records, t) # <<>>
    /\ Of(records, t)[1].text_chars = 12

\* the model ids of the modelled streams that have no pricing entry
UnknownModels == {Unpriced, <<"unknown">>}

\* the ledger totals are the sums over the records
LedgerSums ==
  /\ session.turns = Len(records)
  /\ session.totalCost = SumSeq([i \in 1..Len(records) |-> records[i].cost_usd])
  /\ session.totalInput = SumSeq([i \in 1..Len(records) |-> records[i].input_tokens])
  /\ session.totalOutput = SumSeq([i \in 1..Len(records) |-> records[i].output_tokens])

\* C14: a stream whose model has no pricing entry still gets its record, with
\* cost 0 and the token and character counts a priced model would have given;
\* the record is in the ledger and in the sink, and nothing was raised.
C14_UnknownModelCostZero ==
  /\ \A i \in 1..Len(records) :
       LET r == records[i]
           priced == BuildRecord([stream[r.turn_number] EXCEPT !.state.model = Opus])
       IN r.model \in UnknownModels =>
            /\ r.cost_usd = 0
            /\ [r EXCEPT !.model = Opus, !.cost_usd = priced.cost_usd] = priced
            /\ i <= Len(jsonl) /\ jsonl[i] = r
  /\ LedgerSums
  /\ \A t \in Created :
       Completed(t) /\ stream[t].state.model \in UnknownModels =>
         Of(records, t) # <<>> /\ ~lastRead.threw

\* a stream of an unpriced model has completed: 10 input and 2 output tokens
C14_Witness ==
  \E t \in Created :
    /\ Completed(t)
    /\ stream[t].state.model = Unpriced
    /\ Of(records, t) # <<>>
    /\ Of(records, t)[1].cost_usd = 0
    /\ Of(records, t)[1].input_tokens = 10
    /\ Of(records, t)[1].output_tokens = 2
    /\ session.totalInput >= 10
    /\ Of(jsonl, t) # <<>>

\* the lines a step appends to the sink
NewLines == SubSeq(jsonl', Len(jsonl) + 1, Len(jsonl'))

\* the pending streams the exit hook finalizes completely
FullyFlushed ==
  {t \in Pending : /\ Of(NewRecords, t) = <<BuildRecord(stream[t])>>
                   /\ Of(NewLines, t) = <<BuildRecord(stream[t])>>}

\* C15: when finalizations raise during the exit flush, only the streams
\* whose own finalization raised go without a complete finalization; all the
\* others get their record, and the pending map is emptied.
C15_FlushIsolation ==
  [][ExitStep =>
       /\ pendingStreams' = <<>>
       /\ Cardinality(FullyFlushed) >= Cardinality(Pending) - (faults' - faults)]_vars

\* the exit hook found two pending streams; finalizing the first raised and
\* the second has its record
C15_Witness ==
  /\ exited
  /\ faults = 1
  /\ Created = {1, 2}
  /\ ~Completed(1) /\ ~Completed(2)
  /\ Of(records, 1) = <<>>
  /\ Len(Of(records, 2)) = 1
  /\ Len(Of(jsonl, 2)) = 1

\* the handling of a payload raises: it is the null value, or a message_start
\* whose model is not a string
HandlingRaises(parsed) ==
  \/ parsed.null
  \/ /\ parsed.value.type = "message_start"
     /\ parsed.value.message.present
     /\ ~IsString(parsed.value.message.model)

\* a data line whose payload does not parse or whose handling raises
BadLine(line) ==
  /\ StartsWith(line, DataMarker)
  /\ Drop(line, 6) # DoneSentinel
  /\ (~JSONParse(Drop(line, 6)).ok \/ HandlingRaises(JSONParse(Drop(line, 6))))

\* a text with its bad lines taken out
WithoutBadLines(text) ==
  LET lines == SplitLines(text)
      good == SelectSeq(CompleteLines(lines), LAMBDA l : ~BadLine(l))
  IN Concat([i \in 1..Len(good) |-> good[i] \o <<NL>>], 1, Len(good)) \o Last(lines)

\* the engine after the text delivered so far with its bad lines taken out
Repaired(t) ==
  LET delivered == Take(body[t].all, Len(body[t].all) - Len(body[t].data))
      fresh == [Eng(t) EXCEPT
                 !.p = [state |-> InitialState(stream[t].requestModel),
                        requestModel |-> stream[t].requestModel,
                        turnNum |-> t,
                        buffer |-> WithoutBadLines(DecodeStream(FALSE, delivered).text),
                        eventType |-> ""],
                 !.applied[t] = <<>>]
  IN processPendingBuffer(fresh)

\* C16: a data line that does not parse, or whose handling raises, changes
\* nothing: the state of the stream is that of the same text without the bad
\* lines, and the stream gets the record of that text when it completes.
C16_ParseErrorSkipsOne ==
  \A t \in Created :
    LET clean == Repaired(t)
    IN /\ stream[t].state = clean.p.state
       /\ stream[t].eventType = clean.p.eventType
       /\ Completed(t) => /\ Of(records, t) # <<>>
                          /\ \A i \in 1..Len(Of(records, t)) :
                               Of(records, t)[i] = BuildRecord(clean.p)

OtherPath(path) == IF path = "reader" THEN "iterator" ELSE "reader"

\* the PendingStream after the bytes delivered so far, had they come as one
\* chunk through the given path
PrefixVia(t, path) ==
  LET fresh == [Eng(t) EXCEPT
                 !.p = [state |-> InitialState(stream[t].requestModel),
                        requestModel |-> stream[t].requestModel,
                        turnNum |-> t, buffer |-> <<>>, eventType |-> ""]]
  IN ChunkVia(path, fresh, FALSE,
              Take(body[t].all, Len(body[t].all) - Len(body[t].data))).e.p

\* the record of the whole response body delivered as one chunk and then
\* completed through the given path
RecordVia(t, path) ==
  LET fresh == [Eng(t) EXCEPT
                 !.p = [state |-> InitialState(stream[t].requestModel),
                        requestModel |-> stream[t].requestModel,
                        turnNum |-> t, buffer |-> <<>>, eventType |-> ""]]
      c == ChunkVia(path, fresh, FALSE, body[t].all)
  IN BuildRecord(DoneVia(path, c.e, c.lead, FALSE, "none", IoOk).e.p)

\* C17: in every state a stream can be in, the reader path and the iterator
\* path make the same update for the same next chunk and for completion, so
\* a stream consumed one way has the state and the record the other way
\* gives for the same bytes.
C17_PathsCapturedAlike ==
  \A t \in DOMAIN body :
    ~exited =>
      /\ \A k \in AllChunks(body[t].data) :
           OnChunk(Eng(t), body[t].lead, Take(body[t].data, k))
             = IterChunk(Eng(t), body[t].lead, Take(body[t].data, k))
      /\ OnDone(Eng(t), body[t].lead, verbose, "none", IoOk)
           = IterDone(Eng(t), body[t].lead, verbose, "none", IoOk)
      /\ ~Completed(t) => stream[t] = PrefixVia(t, OtherPath(body[t].path))
      /\ Completed(t) =>
           \A i \in 1..Len(Of(records, t)) :
             Of(records, t)[i] = RecordVia(t, OtherPath(body[t].path))

\* a body with a two-byte character was consumed through the async iterator
\* to completion
C17_Witness ==
  \E t \in Created :
    /\ body[t].path = "iterator"
    /\ body[t].all = Framed
    /\ Completed(t)
    /\ Of(records, t) # <<>>
    /\ Of(records, t)[1].thinking_chars = 2
    /\ Of(records, t)[1].stop_reason = "end_turn"

\* a read()/next() of turn t that reported done
DoneStep(t) == t \in DOMAIN body /\ body'[t].doneReads = body[t].doneReads + 1

\* C18: when the append to the sink or to the side log raises while a
\* completed stream is finalized, the record is in the records list, the
\* ledger has taken it once, the stream is out of the pending map and the
\* host gets the result of the transport.
C18_SinkFailureLocal ==
  [][\A t \in DOMAIN body :
       (/\ DoneStep(t)
        /\ lastRead'.fail = "none"
        /\ (~lastRead'.io.sinkOk \/ ~lastRead'.io.logOk))
       => /\ NewRecords = <<BuildRecord(stream'[t])>>
          /\ session'.turns = session.turns + 1
          /\ session'.totalInput = session.totalInput + NewRecords[1].input_tokens
          /\ session'.totalOutput = session.totalOutput + NewRecords[1].output_tokens
          /\ session'.totalCost = session.totalCost + NewRecords[1].cost_usd
          /\ t \notin ToSet(pendingStreams')
          /\ ~lastRead'.threw
          /\ lastRead'.host = Result("done")]_vars

\* the sink refused the record of a completed stream
C18_Witness ==
  /\ ~exited
  /\ lastRead.transport = Result("done")
  /\ lastRead.fail = "none"
  /\ ~lastRead.io.sinkOk
  /\ Len(Of(records, lastRead.turn)) = 1
  /\ Of(jsonl, lastRead.turn) = <<>>
  /\ lastRead.turn \notin Pending
  /\ session.turns = 1

\* C19: no step lowers the character count of a tracked block or takes a
\* tracked block away.
C19_BlockCountsMonotonic ==
  [][\A t \in DOMAIN stream :
       LET old == stream[t].state.contentBlocks
           new == stream'[t].state.contentBlocks
       IN /\ Len(new) >= Len(old)
          /\ \A i \in 1..Len(old) :
               /\ new[i].index = old[i].index
               /\ new[i].type = old[i].type
               /\ new[i].charCount >= old[i].charCount]_vars

\* two blocks are tracked, the first has grown to 12 characters, and the
\* stream has completed
C19_Witness ==
  \E t \in Created :
    /\ Completed(t)
    /\ Len(stream[t].state.contentBlocks) = 2
    /\ stream[t].state.contentBlocks[1].charCount = 12
    /\ stream[t].state.contentBlocks[2].charCount = 1

\* the dispatch of a call has returned a response with a body and the
\* event-stream content type
StreamingResponse(call) ==
  /\ call.status = "resolved"
  /\ call.response.hasBody
  /\ Includes(call.response.contentType, <<"text/event-stream">>)

\* the step settles the dispatch of call c
Settles(c) == calls[c].status = "awaiting" /\ calls'[c].status # "awaiting"

\* C20: a matched call has a PendingStream exactly when its dispatch returned
\* a streaming response; the PendingStream enters the pending map in that
\* step; a call whose dispatch fails or returns another response changes
\* neither the pending map nor the records nor the ledger, and never has a
\* record.
C20_PendingOnlyForStreams ==
  [][/\ \A c \in 1..Len(calls') :
          /\ (calls'[c].turnNum \in DOMAIN stream') <=> StreamingResponse(calls'[c])
          /\ ~StreamingResponse(calls'[c]) =>
               /\ calls'[c].turnNum \notin ToSet(pendingStreams')
               /\ Of(records', calls'[c].turnNum) = <<>>
               /\ Of(jsonl', calls'[c].turnNum) = <<>>
     /\ \A c \in 1..Len(calls) :
          Settles(c) =>
            IF StreamingResponse(calls'[c])
            THEN /\ pendingStreams' = Append(pendingStreams, calls[c].turnNum)
                 /\ UNCHANGED <<records, jsonl, session>>
            ELSE UNCHANGED <<stream, pendingStreams, records, jsonl, session>>]_vars

\* the first call got a JSON response with a body, the second a stream that
\* has its record
C20_Witness ==
  /\ Len(calls) = 2
  /\ calls[1].status = "resolved"
  /\ calls[1].response.hasBody
  /\ 1 \notin Created
  /\ 2 \in Created
  /\ Of(records, 1) = <<>>
  /\ Of(records, 2) # <<>>
  /\ session.turns = 1

\* the words of a command line that are not the launcher's own flags
Passed(args) == SelectSeq(args, LAMBDA a : a \notin {CooVerbose, CooNoDb})

\* C21: --coo-verbose and --coo-no-db are consumed wherever they stand on the
\* command line: each sets its option, neither is in the argument list handed
\* to Claude, and when the command is run Claude gets all the other arguments,
\* unchanged and in their order.
C21_FlagsConsumed ==
  opts # NotParsed =>
    /\ opts.verbose = Has(Drop(argv, 2), CooVerbose)
    /\ opts.noDb = Has(Drop(argv, 2), CooNoDb)
    /\ ~Has(opts.claudeArgs, CooVerbose)
    /\ ~Has(opts.claudeArgs, CooNoDb)
    /\ opts.command = "run" => opts.claudeArgs = Passed(Drop(argv, 2))
    /\ child # NoChild =>
         /\ ClaudeArgs(child) = Passed(Drop(argv, 2))
         /\ child.verbose = "1" <=> opts.verbose
         /\ child.noDb = "1" <=> opts.noDb

C21_Witness ==
  /\ argv = Argv(<<"-p", CooVerbose, "hello">>)
  /\ opts.command = "run"
  /\ opts.verbose
  /\ child.command = "node"
  /\ ClaudeArgs(child) = <<"-p", "hello">>

\* a is b with some elements left out
RECURSIVE IsSubSeq(_, _)
IsSubSeq(a, b) ==
  IF a = <<>> THEN TRUE
  ELSE IF b = <<>> THEN FALSE
  ELSE IF a[1] = b[1] THEN IsSubSeq(Tail(a), Tail(b))
  ELSE IsSubSeq(a, Tail(b))

\* the rows a step inserts into api_calls
NewRows == SubSeq(db'.api_calls, Len(db.api_calls) + 1, Len(db'.api_calls))

\* C22: the JSONL file is the backup of record: every row a step writes to
\* SQLite is a record the same step appended to the JSONL file, rows are
\* never taken back, with --coo-no-db the database is never written, and
\* when a SQLite write raises while a completed stream is finalized the
\* record is in the JSONL file and nothing is raised.
C22_JsonlIsBackup ==
  [][/\ IsSubSeq(NewRows, NewLines)
     /\ SubSeq(db'.api_calls, 1, Len(db.api_calls)) = db.api_calls
     /\ SubSeq(jsonl', 1, Len(jsonl)) = jsonl
     /\ noDb => db' = EmptyDb
     /\ \A t \in DOMAIN body :
          (DoneStep(t) /\ lastRead'.io.sinkOk /\ lastRead'.io.db # "ok")
          => /\ NewLines = <<BuildRecord(stream'[t])>>
             /\ ~lastRead'.threw
             /\ lastRead'.host = Result("done")
             /\ t \notin ToSet(pendingStreams')]_vars

\* the first record went to both, the insert of the second one raised
C22_Witness ==
  /\ ~noDb
  /\ lastRead.io.db = "insert"
  /\ Len(jsonl) = 2
  /\ db.api_calls = <<jsonl[1]>>
  /\ db.sessions[1].total_calls = 1

\* the text of the bytes the transport has delivered for turn t
Delivered(t) ==
  DecodeStream(FALSE, Take(body[t].all, Len(body[t].all) - Len(body[t].data))).text

\* the walk the claim describes: an event line sets the context, a blank
\* line resets it, and every data line is seen under the context in force
RECURSIVE Contexts(_, _, _)
Contexts(lines, i, acc) ==
  IF i > Len(lines) THEN acc
  ELSE Contexts(lines, i + 1,
         IF StartsWith(lines[i], EventMarker)
         THEN [acc EXCEPT !.context = TypeName(Trim(Drop(lines[i], 7)))]
         ELSE IF StartsWith(lines[i], DataMarker)
         THEN [acc EXCEPT !.seen = Append(@, [context |-> acc.context,
                                               parsed |-> JSONParse(Drop(lines[i], 6))])]
         ELSE IF Trim(lines[i]) = <<>> THEN [acc EXCEPT !.context = ""]
         ELSE acc)

\* the payloads among the data lines of turn t so far, each with its context
Payloads(t) ==
  LET walk == Contexts(CompleteLines(SplitLines(Delivered(t))), 1,
                       [seen |-> <<>>, context |-> ""])
  IN [context |-> walk.context,
      seen |-> SelectSeq(walk.seen, LAMBDA d : d.parsed.ok /\ ~d.parsed.null)]

\* the events of turn t that were dispatched with a payload object
Objects(t) == SelectSeq(applied[t], LAMBDA a : a.data # Empty(NoStr))

\* C23: an event line sets the stream's event type, which holds for every
\* data line after it until a blank line resets it; a payload is dispatched
\* under the event type in force if there is one, and under the type it
\* declares itself only when there is none.
C23_EventTypeContext ==
  \A t \in Created :
    ~Completed(t) /\ ~exited =>
      LET p == Payloads(t)
      IN /\ stream[t].eventType = p.context
         /\ Len(Objects(t)) = Len(p.seen)
         /\ \A i \in 1..Len(p.seen) :
              /\ Objects(t)[i].data = p.seen[i].parsed.value
              /\ p.seen[i].context # "" => Objects(t)[i].type = p.seen[i].context
              /\ p.seen[i].context = ""
                   => Objects(t)[i].type = p.seen[i].parsed.value.type

\* the body Mixed has been delivered: two payloads went under ping, one
\* under its own type after the blank line, one under message_delta
C23_Witness ==
  \E t \in Created :
    /\ body[t].all = Mixed
    /\ body[t].data = <<>>
    /\ ~Completed(t)
    /\ Len(applied[t]) = 4
    /\ applied[t][1].type = "ping" /\ applied[t][1].data.type = "message_start"
    /\ applied[t][2].type = "ping" /\ applied[t][2].data.type = "message_delta"
    /\ applied[t][3].type = "message_start"
    /\ applied[t][4].type = "message_delta" /\ applied[t][4].data.type = "message_start"
    /\ stream[t].eventType = "message_delta"
    /\ stream[t].state.messageId = "msg_2"
    /\ stream[t].state.usage.output_tokens = 2

\* the step delivers a chunk of the body of turn t
ChunkStep(t) == t \in DOMAIN body /\ body'[t].data # body[t].data

\* C24: only the transport's report of completion and the exit flush
\* finalize: a step that delivers stream content, whatever events it holds,
\* emits no record, writes none to the sink, leaves the ledger's turn count
\* and keeps every stream in the pending map.
C24_ContentNeverFinalizes ==
  [][/\ \A t \in DOMAIN body :
          ChunkStep(t) => /\ records' = records
                          /\ jsonl' = jsonl
                          /\ session'.turns = session.turns
                          /\ pendingStreams' = pendingStreams
     /\ records' # records => ExitStep \/ \E t \in DOMAIN body : DoneStep(t)
     /\ \A t \in Pending :
          t \notin ToSet(pendingStreams') => ExitStep \/ DoneStep(t)]_vars

\* a message_delta with a stop reason, a message_stop and the sentinel have
\* been handled, and the stream is pending without a record
C24_Witness ==
  \E t \in Pending :
    /\ body[t].all = Framed
    /\ body[t].data = <<>>
    /\ ~Completed(t)
    /\ stream[t].state.stopReason = "end_turn"
    /\ \E i \in 1..Len(applied[t]) : applied[t][i].type = "message_stop"
    /\ stream[t].buffer = <<>>
    /\ records = <<>>

\* the record of turn t had its stream been the only one: at completion,
\* and at the exit flush after the bytes delivered so far
AloneAtDone(t) == WholeRecord(t)

AloneAtExit(t) == BuildRecord(processPendingBuffer([Eng(t) EXCEPT !.p = WholePrefix(t)]).p)

\* C25: with several streams in flight, under every interleaving of their
\* chunk and completion callbacks, a callback of one stream leaves the
\* state, buffer and event type of every other stream alone, every stream
\* is what its own bytes make it, and every record is the record the stream
\* would get alone.
C25_CrossStreamIsolation ==
  [][/\ \A t \in DOMAIN body :
          ChunkStep(t) \/ DoneStep(t) =>
            /\ \A u \in Created \ {t} : stream'[u] = stream[u]
            /\ \A u \in DOMAIN body \ {t} : body'[u] = body[u]
            /\ \A u \in Created \ {t} : Of(NewRecords, u) = <<>>
     /\ \A t \in Created : ~Completed(t) /\ ~exited => stream[t] = WholePrefix(t)
     /\ \A t \in DOMAIN body :
          DoneStep(t) => \A i \in 1..Len(NewRecords) : NewRecords[i] = AloneAtDone(t)
     /\ ExitStep =>
          \A t \in Pending :
            \A i \in 1..Len(Of(NewRecords, t)) : Of(NewRecords, t)[i] = AloneAtExit(t)]_vars

\* two streams with different bodies are in flight, each cut inside a line
C25_Witness ==
  /\ Pending = {1, 2}
  /\ body[1].all = Short /\ body[2].all = Dangling
  /\ \A t \in {1, 2} : /\ body[t].data # <<>>
                       /\ body[t].data # body[t].all
                       /\ stream[t].buffer # <<>>
  /\ stream[1].state.messageId = "msg_1"
  /\ stream[2].state.messageId = "msg_2"

\* the transport of turn t raises in this step
ErrorStep(t) == t \in DOMAIN body /\ ~body[t].errored /\ body'[t].errored

\* a read that raises leaves the stream pending, with the state folded from
\* the bytes delivered before, and emits nothing
ErrorKeepsPending ==
  \A t \in DOMAIN body :
    /\ ErrorStep(t) =>
         /\ t \in ToSet(pendingStreams')
         /\ stream' = stream
         /\ stream[t] = WholePrefix(t)
         /\ UNCHANGED <<records, jsonl, db, session>>
    /\ body[t].errored /\ ~exited => t \in Pending /\ Of(records, t) = <<>>

Total(F(_)) == SumSeq([i \in 1..Len(records) |-> F(records[i])])

\* the ledger agrees with the records list
LedgerIsSum ==
  /\ session.turns = Len(records)
  /\ session.totalCost = Total(LAMBDA r : r.cost_usd)
  /\ session.totalInput = Total(LAMBDA r : r.input_tokens)
  /\ session.totalOutput = Total(LAMBDA r : r.output_tokens)
  /\ session.totalCacheWrite = Total(LAMBDA r : r.cache_creation_input_tokens)
  /\ session.totalCacheRead = Total(LAMBDA r : r.cache_read_input_tokens)

\* C27: the ledger's turn count is the number of records emitted, its cost,
\* input, output, cache-write and cache-read totals are the sums of those
\* fields over the records, and after a step that emits records its last
\* model and last turn cost are those of the last record emitted.
C27_LedgerConsistency ==
  [][/\ LedgerIsSum
     /\ LedgerIsSum'
     /\ NewRecords # <<>> =>
          /\ session'.lastModel = Last(NewRecords).model
          /\ session'.lastTurnCost = Last(NewRecords).cost_usd]_vars

\* two streams of different models have been finalized
C27_Witness ==
  /\ Len(records) = 2
  /\ records[1].model # records[2].model
  /\ session.turns = 2
  /\ session.totalCacheWrite = 7
  /\ session.totalCacheRead = 3
  /\ session.totalCost > 0
  /\ session.lastModel = records[2].model

\* the StreamStates a stream goes through: the initial one, then the one
\* after each of the events
RECURSIVE States(_, _, _)
States(events, i, acc) ==
  IF i > Len(events) THEN acc
  ELSE Let(processSSEEvent(events[i].type, events[i].data, Last(acc), InitialSession).state,
           LAMBDA x : States(events, i + 1, Append(acc, x)))

\* C28: a message_delta changes nothing but the output token count and the
\* stop reason: input tokens, both cache counters, message id, model and
\* tracked blocks stay, and when its usage has no output token count the
\* output token count stays too.
C28_MessageDeltaFrame ==
  \A t \in Created :
    LET st == States(applied[t], 1, <<InitialState(stream[t].requestModel)>>)
    IN /\ Last(st) = stream[t].state
       /\ \A i \in 1..Len(applied[t]) :
            applied[t][i].type = "message_delta" =>
              /\ st[i + 1].usage.input_tokens = st[i].usage.input_tokens
              /\ st[i + 1].usage.cache_creation_input_tokens
                   = st[i].usage.cache_creation_input_tokens
              /\ st[i + 1].usage.cache_read_input_tokens
                   = st[i].usage.cache_read_input_tokens
              /\ st[i + 1].messageId = st[i].messageId
              /\ st[i + 1].model = st[i].model
              /\ st[i + 1].contentBlocks = st[i].contentBlocks
              /\ applied[t][i].data.usage.output_tokens = NoNum
                   => st[i + 1].usage.output_tokens = st[i].usage.output_tokens

\* after the count of 50, a message_delta whose usage has input and cache
\* counts but no output count has been applied
C28_Witness ==
  \E t \in Created :
    /\ Len(applied[t]) = 3
    /\ applied[t][3].type = "message_delta"
    /\ applied[t][3].data.usage.present
    /\ applied[t][3].data.usage.input_tokens = 9
    /\ applied[t][3].data.usage.output_tokens = NoNum
    /\ stream[t].state.usage.input_tokens = 100
    /\ stream[t].state.usage.output_tokens = 50
    /\ stream[t].state.usage.cache_creation_input_tokens = 7
    /\ stream[t].state.stopReason = "max_tokens"

\* positions of the message_delta events of turn t that carry a stop reason
DeltasWithStop(t) ==
  {i \in 1..Len(applied[t]) :
     /\ applied[t][i].type = "message_delta"
     /\ applied[t][i].data.delta.present
     /\ applied[t][i].data.delta.stop_reason # NoStr}

\* C29: the stop_reason of a record is the stop reason of the last
\* message_delta applied with one, and null when none was applied before the
\* finalization.
C29_StopReasonLastDelta ==
  \A t \in Created :
    \A i \in 1..Len(Of(records, t)) :
      Of(records, t)[i].stop_reason =
        IF DeltasWithStop(t) = {} THEN NoStr
        ELSE applied[t][Max(DeltasWithStop(t))].data.delta.stop_reason

\* end_turn, then max_tokens, then a message_delta without a stop reason:
\* the record has max_tokens
C29_Witness ==
  \E t \in Created :
    /\ Cardinality(DeltasWithStop(t)) = 2
    /\ applied[t][Max(DeltasWithStop(t))].data.delta.stop_reason = "max_tokens"
    /\ \E i \in DeltasWithStop(t) : applied[t][i].data.delta.stop_reason = "end_turn"
    /\ Max(DeltasWithStop(t)) < Len(applied[t])
    /\ Last(applied[t]).type = "message_delta"
    /\ Len(Of(records, t)) = 1
    /\ Of(records, t)[1].stop_reason = "max_tokens"

\* C30 as stated: a second content_block_start for an index that has a
\* TrackedBlock changes nothing, so no StreamState tracks two blocks with
\* the same index.
C30_OneBlockPerIndex ==
  \A t \in Created :
    LET blocks == stream[t].state.contentBlocks
    IN \A i, j \in 1..Len(blocks) : blocks[i].index = blocks[j].index => i = j

\* positions of the content_block_delta events of turn t that have no delta,
\* no index, or no tracked block at their index when they are applied
StrayDeltas(t, st) ==
  {i \in 1..Len(applied[t]) :
     /\ applied[t][i].type = "content_block_delta"
     /\ \/ ~applied[t][i].data.delta.present
        \/ applied[t][i].data.index = NoNum
        \/ \A k \in 1..Len(st[i].contentBlocks) :
             st[i].contentBlocks[k].index # applied[t][i].data.index}

\* C31: a content_block_delta for an index without a tracked block, or
\* without a delta or an index, leaves the whole StreamState as it is.
C31_StrayDeltaIgnored ==
  \A t \in Created :
    LET st == States(applied[t], 1, <<InitialState(stream[t].requestModel)>>)
    IN /\ Last(st) = stream[t].state
       /\ \A i \in StrayDeltas(t, st) : st[i + 1] = st[i]

\* the three stray deltas of body Strays have been applied after the two
\* characters of block 0
C31_Witness ==
  \E t \in Created :
    /\ body[t].all = Strays
    /\ Len(applied[t]) = 5
    /\ ~applied[t][3].data.delta.present
    /\ applied[t][4].data.index = NoNum /\ applied[t][4].data.delta.present
    /\ applied[t][5].data.index = 1
    /\ stream[t].state.contentBlocks = <<[index |-> 0, type |-> "text", charCount |-> 2]>>

\* the character counts of the tracked blocks of turn t whose kind is in kinds
CharsIn(t, kinds) ==
  LET blocks == stream[t].state.contentBlocks
  IN SumSeq([k \in 1..Len(blocks) |->
               IF blocks[k].type \in kinds THEN blocks[k].charCount ELSE 0])

\* C32: the three character totals of a record are the sums of the
\* character counts of the tracked blocks of kind thinking, text and
\* tool_use at finalization; a block of another kind is in none of them, and
\* a block started without a kind is a text block.
C32_CharTotalsByKind ==
  \A t \in Created :
    /\ \A i \in 1..Len(Of(records, t)) :
         LET r == Of(records, t)[i]
         IN /\ r.thinking_chars = CharsIn(t, {"thinking"})
            /\ r.text_chars = CharsIn(t, {"text"})
            /\ r.tool_use_chars = CharsIn(t, {"tool_use"})
            /\ r.thinking_chars + r.text_chars + r.tool_use_chars
                 = CharsIn(t, {"thinking", "text", "tool_use"})
    /\ \A k \in 1..Len(stream[t].state.contentBlocks) :
         applied[t][NthStart(t, k)].data.content_block.type = NoStr
           => stream[t].state.contentBlocks[k].type = "text"

\* the record of body Kinds: 2 tool_use, 1 thinking, 4 text from the block
\* without a kind, and the 3 characters of the tool_result block nowhere
C32_Witness ==
  \E t \in Created :
    /\ body[t].all = Kinds
    /\ Len(Of(records, t)) = 1
    /\ Of(records, t)[1].tool_use_chars = 2
    /\ Of(records, t)[1].thinking_chars = 1
    /\ Of(records, t)[1].text_chars = 4
    /\ Len(stream[t].state.contentBlocks) = 4
    /\ stream[t].state.contentBlocks[3] = [index |-> 2, type |-> "tool_result", charCount |-> 3]

\* what the request entry may show of a request body: the config fields,
\* the message count, the last message, and the two counts
Shown(requestBody) ==
  LET has(k) == k \in DOMAIN requestBody
  IN [config |-> [k \in DOMAIN requestBody \cap ConfigKeys |-> requestBody[k]],
      messages_count |-> IF has("messages") THEN Len(requestBody["messages"]) ELSE -1,
      last_message |-> IF has("messages") /\ Len(requestBody["messages"]) > 0
                       THEN <<Last(requestBody["messages"])>> ELSE <<>>,
      system_blocks |-> IF has("system") THEN Len(requestBody["system"]) ELSE -1,
      tools_count |-> IF has("tools") THEN Len(requestBody["tools"]) ELSE -1]

\* the request entries of the side log of call c
RequestEntries(c) ==
  SelectSeq(log[calls[c].turnNum], LAMBDA e : e.type = "request")

ShownKeys ==
  ConfigKeys \cup {"messages_count", "last_message", "system_blocks", "tools_count"}

RecordAppendFailed ==
  {t \in Created : Of(NewRecords, t) # <<>> /\ Of(jsonl', t) = <<>>}

\* the turns whose record a step appends to the JSONL file while the side log
\* gets no stream_end entry: the log append of the finalization raised
LogAppendFailed ==
  {t \in Created :
     /\ Of(jsonl, t) = <<>> /\ Of(jsonl', t) # <<>>
     /\ \A i \in 1..Len(log'[t]) : log'[t][i].type # "stream_end"}

\* a matched call whose request entry is missing although trimming its body
\* did not raise: the log append of the request raised
RequestAppendFailed ==
  /\ Len(calls') = Len(calls) + 1
  /\ ~TrimRaises(Last(calls').init)
  /\ log'[Last(calls').turnNum] = <<>>

\* what a step writes to process.stderr
NewStderr == SubSeq(stderr', Len(stderr) + 1, Len(stderr'))

\* a step writes something other than the terminal title and the verbose
\* line that every finalization writes
Reports == \E i \in 1..Len(NewStderr) : NewStderr[i] \notin {"title", "line", "installed"}

\* C34 as stated: whenever the record append or the log append fails during
\* finalization or request logging, a report of the failure is written to
\* the diagnostic channel.
C34_SinkFailureReported ==
  [][RecordAppendFailed # {} \/ LogAppendFailed # {} \/ RequestAppendFailed
       => Reports]_vars

\* effects[i] is the given step of the same turn as effects[j]
StepAt(i, j, step) ==
  i \in 1..Len(effects) /\ effects[i] = Step(effects[j].turn, step)

C36_ExitPropagation ==
  childExit # NoExit =>
    launcherExit = IF childExit.signal # NoSignal
                   THEN KilledBy(childExit.signal)
                   ELSE ExitWith(childExit.code)

\* the step in which the startup update settles
UpdateStep == pricing.settled = "pending" /\ pricing'.settled # "pending"

\* the update leaves pricing.json and the pricing cache as they were
StoreKept ==
  /\ pricing'.store.file = pricing.store.file
  /\ pricing'.store.cache = pricing.store.cache
  /\ ~pricing'.store.written /\ ~pricing'.store.cleared

\* the file is written and the cache cleared only after a fetch that gave at
\* least one model
SavedOnlyModels ==
  ~StoreKept =>
    /\ pricing'.fetch = "resolved"
    /\ Len(pricing'.store.file.models) >= 1
    /\ pricing'.store.cache = NoConfig

C39_RedirectsBounded ==
  pricing.settled # "pending" =>
    /\ pricing.requests <= 6
    /\ pricing.server.redirects > 5 =>
         /\ pricing.requests = 6
         /\ ~pricing.slow => pricing.fetch = "Too many redirects"
    /\ pricing.server.redirects <= 5 =>
         /\ pricing.requests = pricing.server.redirects + 1
         /\ pricing.fetch # "Too many redirects"

\* the update against a server that redirects more often than any chain
\* the fetch follows
C39_Witness ==
  /\ pricing.settled = "resolved"
  /\ pricing.server.redirects = MaxRedirects
  /\ pricing.fetch = "Too many redirects"
  /\ pricing.requests = 6
  /\ ~pricing.store.written

\* the positions of the entries of a table whose key is k
Keyed(models, k) == {i \in 1..Len(models) : models[i].key = k}

\* the positions of the entries whose key contains the family name
OfFamily(models, family) ==
  {i \in 1..Len(models) : \E j \in 1..Len(models[i].key) : models[i].key[j] = family}

\* the family name is in the id and in some key of the table
FamilyHit(models, id, family) ==
  /\ \E j \in 1..Len(id) : id[j] = family
  /\ OfFamily(models, family) # {}

\* the first-listed entry of a non-empty set of positions
FirstListed(models, positions) ==
  [found |-> TRUE,
   pricing |-> models[CHOOSE i \in positions : \A j \in positions : i <= j].pricing]

\* the resolution order of the claim
Resolution(models, modelId) ==
  LET stripped == normalizeModelId(modelId)
  IN IF Keyed(models, stripped) # {} THEN FirstListed(models, Keyed(models, stripped))
     ELSE IF Keyed(models, modelId) # {} THEN FirstListed(models, Keyed(models, modelId))
     ELSE IF FamilyHit(models, stripped, "opus")
       THEN FirstListed(models, OfFamily(models, "opus"))
     ELSE IF FamilyHit(models, stripped, "sonnet")
       THEN FirstListed(models, OfFamily(models, "sonnet"))
     ELSE IF FamilyHit(models, stripped, "haiku")
       THEN FirstListed(models, OfFamily(models, "haiku"))
     ELSE [found |-> FALSE, pricing |-> NoPricing]

\* C38: a model id resolves to the entry keyed by the id without its date;
\* else to the entry keyed by the raw id; else to the first-listed entry of
\* the first family among opus, sonnet, haiku that is in the stripped id and
\* in a key of the table; else to no entry.
C38_ResolutionOrder ==
  resolved.called =>
    [found |-> resolved.found, pricing |-> resolved.pricing]
      = Resolution(resolved.models, resolved.modelId)

\* an opus id without an entry of its own, resolved against the table that
\* lists opus 4.1 before opus 4.6: the entry of opus 4.1
C38_Witness ==
  /\ resolved.called
  /\ resolved.modelId = <<"claude", "opus", "5">>
  /\ Len(resolved.models) = 3
  /\ resolved.models[1].key = <<"claude", "opus", "4", "1">>
  /\ resolved.models[2].key = <<"claude", "opus", "4", "6">>
  /\ resolved.found
  /\ resolved.pricing.input = 1500

\* C40 as stated: the sessions row counts the api_calls rows of the session
\* and sums their cost, whichever statements failed.
C40_SessionSummaryConsistent ==
  /\ db.sessions = <<>> => db.api_calls = <<>>
  /\ db.sessions # <<>> =>
       /\ db.sessions[1].total_calls = Len(db.api_calls)
       /\ db.sessions[1].total_cost
            = SumSeq([i \in 1..Len(db.api_calls) |-> db.api_calls[i].cost_usd])

====
